---- MODULE Spec2Model ----
(***************************************************************************)
(* Composition and capability isolation of Spin components.                *)
(*                                                                         *)
(*   crates/compose/src/isolate.rs   imports: the capability-isolation     *)
(*                                   rewrite of one component binary       *)
(*   crates/compose/src/composer.rs  SpinComposer: registration, cycle     *)
(*                                   checked dependency resolution,        *)
(*                                   bottom-up wiring, unify, encode       *)
(*                                                                         *)
(* Spec         one composition run (SpinComposer::compose) over a         *)
(*              manifest drawn from Manifests.                             *)
(* SpecIsolate  one run of isolate::imports, payload by payload, over a    *)
(*              binary drawn from InputBinaries.                           *)
(* SpecOrder    compose as a function, run on a manifest and on the same   *)
(*              manifest with its import lists in another order.           *)
(* SpecFair     Spec with the fairness of sequential code.                 *)
(* SpecNormalize  one run of normalize_manifest                            *)
(*              (crates/manifest/src/normalize.rs), loop pass by loop      *)
(*              pass, over an application drawn from Applications.         *)
(***************************************************************************)
EXTENDS Integers, Sequences, FiniteSets, TLC

VARIABLES
    \* ---- isolate::imports (isolate.rs:13-88)
    bytes,        \* the binary being rewritten, after componentize_if_necessary
    prefix,       \* the isolation tag
    payloads,     \* what Parser::parse_all has still to yield
    output,       \* the output buffer under construction
    stack,        \* the buffers of the enclosing definitions
    depth,        \* the nesting depth counter
    isoPc,        \* "idle" | "loop" | "validate" | "ok" | "err"
    \* ---- SpinComposer (composer.rs:10-14) and one compose run
    manifest,     \* the application: component id -> its import list
    graph,        \* composition_graph: components, instances, connections
    components,   \* IndexMap<String, ComponentId>
    instances,    \* IndexMap<String, InstanceId>
    visited,      \* the IndexSet handed down add_dependencies
    calls,        \* the call stack of add_dependencies / build_composition
    stage,        \* where compose is
    result,       \* what compose returned: none, bytes or an error
    trace,        \* history: reads, isolations, insertions, connects, unify, encode
    \* ---- two compose runs side by side
    permuted,     \* the manifest with the import lists in another order
    outcomes,     \* what compose answers for manifest and for permuted
    \* ---- normalize_manifest (normalize.rs:11-15)
    given,        \* the application as written, before normalization
    app,          \* the AppManifest being normalized: triggers and components
    normPc,       \* "idle" | "trigger_ids" | "inline" | "imports" | "done"
    normI,        \* the position of the outer loop of the running pass
    trigger_ids,  \* the HashSet of normalize_trigger_ids
    counter,      \* the counter of normalize_trigger_ids
    component_ids,\* the HashSet of normalize_component_imports
    normalized,   \* the Map of normalize_component_imports
    minted        \* history: the identities generated for inline components

isoVars  == <<bytes, prefix, payloads, output, stack, depth, isoPc>>
compVars == <<manifest, graph, components, instances, visited, calls, stage, result, trace>>
ordVars  == <<permuted, outcomes>>
normVars == <<given, app, normPc, normI, trigger_ids, counter, component_ids,
              normalized, minted>>
vars     == <<bytes, prefix, payloads, output, stack, depth, isoPc,
             manifest, graph, components, instances, visited, calls, stage, result,
             trace, permuted, outcomes,
             given, app, normPc, normI, trigger_ids, counter, component_ids,
             normalized, minted>>

(***************************************************************************)
(* Bounds of the model.                                                    *)
(***************************************************************************)
\* Sections of a top-level input binary of SpecIsolate.
MaxSections == 2
\* Nesting levels of the nested definitions of an input binary.
MaxNest == 2
\* Imports declared by a manifest, over all its components.
MaxEdges == 3

(***************************************************************************)
(* Binaries.  A binary is a sequence of items: a header, then sections.    *)
(* A nested module or component is one section holding a whole binary.    *)
(***************************************************************************)
FS_PREOPENS == "wasi:filesystem/preopens@0.2.0-rc-2023-10-18"
CLI_ENV     == "wasi:cli/environment@0.2.0-rc-2023-10-18"

ISOLATE_INTERFACES == <<FS_PREOPENS, CLI_ENV>>

Header(encoding)      == [t |-> "header", encoding |-> encoding]
TypeRef(kind, idx)    == [kind |-> kind, idx |-> idx]
Import(name, ty)      == [name |-> name, ty |-> ty]
ImportSection(imps)   == [t |-> "import", imports |-> imps]
ExportSection(n, k)   == [t |-> "export", name |-> n, kind |-> k]
CustomSection(data)   == [t |-> "custom", data |-> data]
CoreImportSection(n)  == [t |-> "coreimport", name |-> n]
NestedSection(id, b)  == [t |-> "nested", id |-> id, body |-> b]

COMPONENT_HEADER == Header("component")
MODULE_HEADER    == Header("module")

Range(s) == {s[i] : i \in DOMAIN s}

Contains(list, x) == \E i \in DOMAIN list : list[i] = x

StartsWith(buf, item) == Len(buf) >= 1 /\ buf[1] = item

\* Sequences over S of length at most n.
SeqUpTo(S, n) == UNION {[1..k -> S] : k \in 0..n}

(***************************************************************************)
(* Parser::parse_all: the payload stream of a binary.  A nested section    *)
(* yields its ModuleSection / ComponentSection payload, then the payloads  *)
(* of the nested binary up to its own End.                                 *)
(***************************************************************************)
Payload(p, encoding, section) == [p |-> p, encoding |-> encoding, section |-> section]

NoSection == [t |-> "none"]

RECURSIVE parse_all(_)
parse_all(bin) ==
    LET RECURSIVE Sections(_)
        Sections(i) ==
            IF i > Len(bin) THEN <<>>
            ELSE LET s == bin[i] IN
                 (CASE s.t = "nested" ->
                           <<Payload(IF s.id = "Component" THEN "ComponentSection"
                                     ELSE "ModuleSection", "", NoSection)>>
                           \o parse_all(s.body)
                    [] s.t = "import" -> <<Payload("ComponentImportSection", "", s)>>
                    [] OTHER -> <<Payload("Section", "", s)>>)
                 \o Sections(i + 1)
    IN  <<Payload("Version", bin[1].encoding, NoSection)>>
        \o Sections(2)
        \o <<Payload("End", "", NoSection)>>

(***************************************************************************)
(* componentize_if_necessary (spin_componentize): a component is passed    *)
(* through, a bare module is wrapped into a component shell.               *)
(***************************************************************************)
componentize_if_necessary(bin) ==
    IF StartsWith(bin, COMPONENT_HEADER) THEN bin
    ELSE <<COMPONENT_HEADER, NestedSection("CoreModule", bin)>>

(***************************************************************************)
(* isolate.rs: the conversions and the re-encoding of one import.          *)
(***************************************************************************)
\* The conversion with the Func arm answering an Instance reference.
convert_type_ref_func_as_instance(ty) ==
    CASE ty.kind = "module"    -> TypeRef("module", ty.idx)
      [] ty.kind = "func"      -> TypeRef("instance", ty.idx)
      [] ty.kind = "value"     -> TypeRef("value", ty.idx)
      [] ty.kind = "type"      -> TypeRef("type", ty.idx)
      [] ty.kind = "instance"  -> TypeRef("instance", ty.idx)
      [] ty.kind = "component" -> TypeRef("component", ty.idx)

\* isolate.rs:90-99
convert_wp_component_type_ref_to_we(ty) ==
    CASE ty.kind = "module"    -> TypeRef("module", ty.idx)
      [] ty.kind = "func"      -> TypeRef("func", ty.idx)
      [] ty.kind = "value"     -> TypeRef("value", ty.idx)
      [] ty.kind = "type"      -> TypeRef("type", ty.idx)
      [] ty.kind = "instance"  -> TypeRef("instance", ty.idx)
      [] ty.kind = "component" -> TypeRef("component", ty.idx)

\* encode_import: one import section holding the one import.
encode_import(out, name, ty) ==
    Append(out, ImportSection(<<Import(name, convert_wp_component_type_ref_to_we(ty))>>))

\* format!("{prefix}-{name}")
FormatUnprefixed(pfx, name) == name
FormatIsolated(pfx, name) == pfx \o "-" \o name

\* The depth at which import sections are rewritten.
RewriteAnyDepth(d) == TRUE
RewriteDepth(d) == d = 0

\* The loop over one import section at depth 0 (isolate.rs:58-69).
RECURSIVE RewriteImports(_, _, _, _)
RewriteImports(out, imps, i, pfx) ==
    IF i > Len(imps) THEN out
    ELSE LET import == imps[i]
             name   == import.name
         IN  RewriteImports(
                 IF Contains(ISOLATE_INTERFACES, name)
                 THEN encode_import(out, FormatIsolated(pfx, name), import.ty)
                 ELSE encode_import(out, name, import.ty),
                 imps, i + 1, pfx)

(***************************************************************************)
(* One iteration of the payload loop (isolate.rs:20-81) on the state       *)
(* st = [output, stack, depth, brk]; brk is the break at the outer End.    *)
(***************************************************************************)
IsoState(o, s, d, b) == [output |-> o, stack |-> s, depth |-> d, brk |-> b]

\* The End arm with another pop discipline: the oldest buffer is taken.
EndPayloadOldest(st) ==
    LET d == st.depth - 1 IN
    IF st.stack = <<>> THEN IsoState(st.output, st.stack, d, TRUE)
    ELSE LET parent == st.stack[1]
             id     == IF StartsWith(st.output, COMPONENT_HEADER)
                       THEN "Component" ELSE "CoreModule"
         IN  IsoState(Append(parent, NestedSection(id, st.output)),
                      Tail(st.stack), d, FALSE)

\* Payload::End (isolate.rs:36-51).
EndPayload(st) ==
    LET d == st.depth - 1 IN
    IF st.stack = <<>> THEN IsoState(st.output, st.stack, d, TRUE)
    ELSE LET n      == Len(st.stack)
             parent == st.stack[n]
             id     == IF StartsWith(st.output, COMPONENT_HEADER)
                       THEN "Component" ELSE "CoreModule"
         IN  IsoState(Append(parent, NestedSection(id, st.output)),
                      SubSeq(st.stack, 1, n - 1), d, FALSE)

IsoStep(st, payload, pfx) ==
    CASE payload.p \in {"ModuleSection", "ComponentSection"} ->
             \* push the current buffer, start an empty one, continue
             IsoState(<<>>, Append(st.stack, st.output), st.depth + 1, FALSE)
      [] payload.p = "End" -> EndPayload(st)
      [] payload.p = "Version" ->
             IsoState(Append(st.output, IF payload.encoding = "component"
                                        THEN COMPONENT_HEADER ELSE MODULE_HEADER),
                      st.stack, st.depth, FALSE)
      [] payload.p = "ComponentImportSection" /\ RewriteDepth(st.depth) ->
             IsoState(RewriteImports(st.output, payload.section.imports, 1, pfx),
                      st.stack, st.depth, FALSE)
      [] OTHER ->
             \* as_section(): the section is copied raw
             IsoState(Append(st.output, payload.section), st.stack, st.depth, FALSE)

\* The whole loop: the state at the break.
RECURSIVE RunPayloads(_, _, _)
RunPayloads(st, ps, pfx) ==
    IF ps = <<>> \/ st.brk THEN st
    ELSE RunPayloads(IsoStep(st, Head(ps), pfx), Tail(ps), pfx)

\* imports(bytes, prefix) up to the validation: the rewritten binary.
imports(bin, pfx) ==
    RunPayloads(IsoState(<<>>, <<>>, 0, FALSE),
                parse_all(componentize_if_necessary(bin)), pfx).output

(***************************************************************************)
(* The input binaries of SpecIsolate: every sequence of at most            *)
(* MaxSections sections over SectionMenu, and two bare modules.            *)
(***************************************************************************)
CLI_ENV_OTHER_VERSION == "wasi:cli/environment@0.2.0"

ImportMenu ==
    { <<Import(FS_PREOPENS, TypeRef("instance", 0))>>,
      <<Import(CLI_ENV, TypeRef("instance", 1))>>,
      <<Import(CLI_ENV_OTHER_VERSION, TypeRef("instance", 2))>>,
      <<Import("run", TypeRef("func", 3))>>,
      <<Import("x", TypeRef("instance", 4)), Import(CLI_ENV, TypeRef("instance", 5))>> }

InnerComponent == <<COMPONENT_HEADER,
                    ImportSection(<<Import(CLI_ENV, TypeRef("instance", 0))>>),
                    CustomSection(1)>>
InnerModule    == <<MODULE_HEADER, CoreImportSection(CLI_ENV), CustomSection(2)>>

\* The nested definitions that hold k further levels of nesting.
RECURSIVE NestedBodies(_)
NestedBodies(k) ==
    IF k = 0 THEN {InnerComponent, InnerModule}
    ELSE { <<COMPONENT_HEADER,
             ImportSection(<<Import(FS_PREOPENS, TypeRef("instance", 0))>>),
             NestedSection(IF StartsWith(b, COMPONENT_HEADER) THEN "Component"
                           ELSE "CoreModule", b),
             ImportSection(<<Import(CLI_ENV, TypeRef("instance", 1))>>)>>
           : b \in NestedBodies(k - 1) }

SectionMenu ==
    {ImportSection(imps) : imps \in ImportMenu}
    \cup {ExportSection("api", "instance")}
    \cup {NestedSection(IF StartsWith(b, COMPONENT_HEADER) THEN "Component"
                        ELSE "CoreModule", b)
          : b \in UNION {NestedBodies(k) : k \in 0..(MaxNest - 1)}}

InputBinaries ==
    {<<COMPONENT_HEADER>> \o ss : ss \in SeqUpTo(SectionMenu, MaxSections)}
    \cup {InnerModule, <<MODULE_HEADER>>}

Prefixes == {"a", "b-c"}

(***************************************************************************)
(* SpecIsolate: isolate::imports, one payload per step.                    *)
(***************************************************************************)
IsoIdle ==
    /\ bytes = <<>> /\ prefix = "" /\ payloads = <<>>
    /\ output = <<>> /\ stack = <<>> /\ depth = 0 /\ isoPc = "idle"

\* The loop state as IsoStep takes it, and its assignment.
IsoCurrent == IsoState(output, stack, depth, FALSE)

IsoApply(payload) ==
    LET st == IsoStep(IsoCurrent, payload, prefix) IN
    /\ output' = st.output
    /\ stack' = st.stack
    /\ depth' = st.depth
    /\ payloads' = Tail(payloads)
    /\ isoPc' = IF st.brk THEN "validate" ELSE "loop"
    /\ UNCHANGED <<bytes, prefix>>

\* Payload::Version (isolate.rs:25-30).
IsoVersion ==
    /\ isoPc = "loop" /\ payloads # <<>>
    /\ Head(payloads).p = "Version"
    /\ IsoApply(Head(payloads))
    /\ UNCHANGED compVars
    /\ UNCHANGED ordVars
    /\ UNCHANGED normVars

\* Payload::ModuleSection | Payload::ComponentSection (isolate.rs:31-35).
IsoEnterNested ==
    /\ isoPc = "loop" /\ payloads # <<>>
    /\ Head(payloads).p \in {"ModuleSection", "ComponentSection"}
    /\ IsoApply(Head(payloads))
    /\ UNCHANGED compVars
    /\ UNCHANGED ordVars
    /\ UNCHANGED normVars

\* Payload::End (isolate.rs:36-51).
IsoEnd ==
    /\ isoPc = "loop" /\ payloads # <<>>
    /\ Head(payloads).p = "End"
    /\ IsoApply(Head(payloads))
    /\ UNCHANGED compVars
    /\ UNCHANGED ordVars
    /\ UNCHANGED normVars

\* Payload::ComponentImportSection (isolate.rs:55-71, and 74-80 when nested).
IsoImportSection ==
    /\ isoPc = "loop" /\ payloads # <<>>
    /\ Head(payloads).p = "ComponentImportSection"
    /\ IsoApply(Head(payloads))
    /\ UNCHANGED compVars
    /\ UNCHANGED ordVars
    /\ UNCHANGED normVars

\* Any other section (isolate.rs:74-80).
IsoRawSection ==
    /\ isoPc = "loop" /\ payloads # <<>>
    /\ Head(payloads).p = "Section"
    /\ IsoApply(Head(payloads))
    /\ UNCHANGED compVars
    /\ UNCHANGED ordVars
    /\ UNCHANGED normVars

\* Validator::validate_all (isolate.rs:83-87): the validator's verdict on
\* the output is not modelled, both outcomes are possible.
IsoValidate ==
    /\ isoPc = "validate"
    /\ \E valid \in BOOLEAN : isoPc' = IF valid THEN "ok" ELSE "err"
    /\ UNCHANGED <<bytes, prefix, payloads, output, stack, depth>>
    /\ UNCHANGED compVars
    /\ UNCHANGED ordVars
    /\ UNCHANGED normVars

(***************************************************************************)
(* The application manifest as the composer reads it: for every declared   *)
(* component its imports, each (import name, dependency id, optional       *)
(* export name of the dependency).                                         *)
(***************************************************************************)
Ids        == {"a", "b", "c", "d"}
Root       == "a"
Undeclared == "ghost"
\* What an import of the bounded manifests may name as its dependency.
Targets    == {"a", "b", "c", Undeclared}

\* Option<T>
None    == <<>>
Some(v) == <<v>>

\* The import names of a component, in the order imports() yields them.
ImportNames   == <<"x", "y">>
\* The export an import of that name may ask of its dependency.
ExportOptions(name) == IF name = "x" THEN {None, Some("api")} ELSE {None, Some("run")}

ComponentImport(name, component, export) ==
    [name |-> name, component |-> component, export |-> export]

EmptyManifest == [c \in Ids |-> <<>>]

\* c.app.get_component(id)
Declared(m, id) == id \in DOMAIN m

\* The declared components a component imports from, and what is reachable.
Succ(m, c) == {m[c][i].component : i \in DOMAIN m[c]} \cap DOMAIN m

RECURSIVE Closure(_, _)
Closure(m, S) ==
    LET T == S \cup UNION {Succ(m, c) : c \in S}
    IN  IF T = S THEN S ELSE Closure(m, T)

Reachable(m) == Closure(m, {Root})

\* A component reachable from the root lies on a cycle of imports.
HasCycle(m) == \E c \in Reachable(m) : c \in Closure(m, Succ(m, c))

\* A reachable component refers to an identity the manifest does not declare.
HasUndeclared(m) ==
    \E c \in Reachable(m) : \E i \in DOMAIN m[c] : ~Declared(m, m[c][i].component)

\* The manifests with k imports, all of them in components the root reaches:
\* one more import at the end of the list of a reachable component.
RECURSIVE ManifestsWith(_)
ManifestsWith(k) ==
    IF k = 0 THEN {EmptyManifest}
    ELSE UNION {
           UNION {
             { [m EXCEPT ![c] = Append(@, ComponentImport(ImportNames[Len(m[c]) + 1],
                                                          t, e))]
               : t \in Targets, e \in ExportOptions(ImportNames[Len(m[c]) + 1]) }
             : c \in {r \in Reachable(m) : Len(m[r]) < Len(ImportNames)} }
           : m \in ManifestsWith(k - 1) }

\* The diamond A->B, A->C, B->D, C->D.
Diamond ==
    [c \in Ids |->
        CASE c = "a" -> <<ComponentImport("x", "b", None), ComponentImport("y", "c", None)>>
          [] c = "b" -> <<ComponentImport("x", "d", None)>>
          [] c = "c" -> <<ComponentImport("x", "d", None)>>
          [] OTHER   -> <<>>]

\* The chain A->B->C->D.
Chain ==
    [c \in Ids |->
        CASE c = "a" -> <<ComponentImport("x", "b", None)>>
          [] c = "b" -> <<ComponentImport("x", "c", None)>>
          [] c = "c" -> <<ComponentImport("x", "d", None)>>
          [] OTHER   -> <<>>]

Manifests == UNION {ManifestsWith(k) : k \in 0..MaxEdges} \cup {Diamond, Chain}

(***************************************************************************)
(* The component binaries on disk, one per declared component.             *)
(***************************************************************************)
Disk(id) ==
    CASE id = "a" ->
           <<COMPONENT_HEADER,
             ImportSection(<<Import("x", TypeRef("instance", 0)),
                             Import("y", TypeRef("instance", 1))>>),
             ImportSection(<<Import(CLI_ENV, TypeRef("instance", 2))>>),
             ExportSection("api", "instance")>>
      [] id = "b" ->
           <<COMPONENT_HEADER,
             ImportSection(<<Import("x", TypeRef("instance", 0)),
                             Import(FS_PREOPENS, TypeRef("instance", 1))>>),
             NestedSection("Component", InnerComponent),
             ExportSection("api", "instance"),
             ExportSection("run", "func")>>
      [] id = "c" ->
           <<COMPONENT_HEADER,
             ImportSection(<<Import("x", TypeRef("instance", 0)),
                             Import("y", TypeRef("func", 1))>>),
             ImportSection(<<Import(CLI_ENV, TypeRef("instance", 2)),
                             Import(FS_PREOPENS, TypeRef("instance", 3))>>),
             ExportSection("api", "instance")>>
      [] OTHER ->
           <<COMPONENT_HEADER,
             ImportSection(<<Import("x", TypeRef("instance", 0))>>),
             ExportSection("run", "func")>>

(***************************************************************************)
(* The composition graph (wasm_compose::graph::CompositionGraph) as the    *)
(* composer uses it.  ComponentId and InstanceId are positions.            *)
(***************************************************************************)
EmptyGraph == [components |-> <<>>, instances |-> <<>>, connections |-> {}]

\* The imports and exports a binary declares at depth 0, in order.
RECURSIVE DepthZeroImports(_)
DepthZeroImports(bin) ==
    IF bin = <<>> THEN <<>>
    ELSE (IF Head(bin).t = "import" THEN Head(bin).imports ELSE <<>>)
         \o DepthZeroImports(Tail(bin))

RECURSIVE DepthZeroExports(_)
DepthZeroExports(bin) ==
    IF bin = <<>> THEN <<>>
    ELSE (IF Head(bin).t = "export"
          THEN <<[name |-> Head(bin).name, kind |-> Head(bin).kind]>> ELSE <<>>)
         \o DepthZeroExports(Tail(bin))

\* Component::from_bytes: the definition with its interface tables.
from_bytes(name, bin) ==
    [name |-> name, imports |-> DepthZeroImports(bin), exports |-> DepthZeroExports(bin)]

\* get_component_by_name: the ids of the definitions of that name.
get_component_by_name(g, name) ==
    {i \in DOMAIN g.components : g.components[i].name = name}

\* import_by_name / export_by_name: the indexes holding that name.
import_by_name(def, name) == {i \in DOMAIN def.imports : def.imports[i].name = name}
export_by_name(def, name) == {i \in DOMAIN def.exports : def.exports[i].name = name}

Min(S) == CHOOSE x \in S : \A y \in S : x <= y

(***************************************************************************)
(* Errors, results and the history of the run.                             *)
(***************************************************************************)
Err(kind, component, detail, name) ==
    [kind |-> kind, component |-> component, detail |-> detail, name |-> name]
NoErr == Err("none", "", "", "")

Event(e, id, dep, name, export, n) ==
    [e |-> e, id |-> id, dep |-> dep, name |-> name, export |-> export, n |-> n]

Frame(fn, c, i, pc) == [fn |-> fn, c |-> c, i |-> i, pc |-> pc]

\* What fs::read and the isolation can answer on a first registration.
Outcomes == {"ok", "no_source", "read_err", "invalid"}

(***************************************************************************)
(* SpinComposer::add_component (composer.rs:49-93) on                      *)
(* st = [graph, components, instances, trace]; the answer adds err and     *)
(* ret, the instance id returned.                                          *)
(***************************************************************************)
Answer(st, err, ret) ==
    [graph |-> st.graph, components |-> st.components, instances |-> st.instances,
     trace |-> st.trace, err |-> err, ret |-> ret]

\* The early return with a lookup that never finds the name.
AlreadyAddedNever(g, name) == FALSE
\* composer.rs:52
AlreadyAdded(g, name) == get_component_by_name(g, name) # {}

\* composition_graph.instantiate(component_id), twice over.
instantiate_twice(g, cid) ==
    [g EXCEPT !.instances = @ \o <<[component |-> cid, connected |-> {}],
                                   [component |-> cid, connected |-> {}]>>]
\* composition_graph.instantiate(component_id)
instantiate(g, cid) ==
    [g EXCEPT !.instances = Append(@, [component |-> cid, connected |-> {}])]

\* The instance id returned without being stored in the table.
InsertInstanceSkipped(insts, id, iid) == insts
\* composer.rs:89: self.instances.insert(app_component_id, instance_id)
InsertInstance(insts, id, iid) == (id :> iid) @@ insts

\* The verdict of the validation dropped instead of handed on.
ValidationIgnored(outcome) == FALSE
\* composer.rs:77 with isolate.rs:83-85: the `?` on a failed validation.
ValidationFailed(outcome) == outcome = "invalid"

\* The read, and the isolation with the verdict of its validation (1: valid).
ReadAndIsolate(id, outcome) ==
    <<Event("read", id, "", "", None, 0),
      Event("isolate", id, "", "", None, IF outcome = "invalid" THEN 0 ELSE 1)>>

\* composer.rs:59-77: the source of each component read and isolated with
\* its own id as the prefix.
Isolated == [id \in Ids |-> imports(Disk(id), id)]

add_component(st, id, outcome) ==
    IF AlreadyAdded(st.graph, id)
    THEN IF id \in DOMAIN st.instances
         THEN Answer([st EXCEPT !.trace =
                         Append(@, Event("handle", id, "", "", None, st.instances[id]))],
                     NoErr, st.instances[id])
         ELSE Answer(st, Err("panic", id, "unwrap", ""), 0)
    ELSE
    CASE outcome = "no_source" ->
           Answer(st, Err("no_source", id, "AppComponent missing source field", ""), 0)
      [] outcome = "read_err" ->
           Answer([st EXCEPT !.trace = Append(@, Event("read", id, "", "", None, 0))],
                  Err("read", id, "failed to read component source", "path"), 0)
      [] ValidationFailed(outcome) ->
           Answer([st EXCEPT !.trace = @ \o ReadAndIsolate(id, outcome)],
                  Err("validate", id, "failed to validate output component", ""), 0)
      [] OTHER ->
           LET isolated == Isolated[id]
               def      == from_bytes(id, isolated)
               cid      == Len(st.graph.components) + 1
               g1       == [st.graph EXCEPT !.components = Append(@, def)]
               g2       == instantiate(g1, cid)
               iid      == Len(g2.instances)
               tr       == st.trace \o ReadAndIsolate(id, outcome)
                                    \o <<Event("insert", id, "", "", None, iid),
                                         Event("handle", id, "", "", None, iid)>>
               read     == [st EXCEPT !.trace = @ \o ReadAndIsolate(id, outcome)]
           IN  IF get_component_by_name(st.graph, id) # {}
               THEN \* composition_graph.add_component refuses a second definition
                    Answer(read, Err("graph", id, "a component of that name exists", ""), 0)
               ELSE IF id \in DOMAIN st.components \/ id \in DOMAIN st.instances
               THEN Answer(read, Err("panic", id, "assert", ""), 0)
               ELSE Answer([graph      |-> g2,
                            components |-> (id :> cid) @@ st.components,
                            instances  |-> InsertInstance(st.instances, id, iid),
                            trace      |-> tr],
                           NoErr, iid)

(***************************************************************************)
(* SpinComposer::connect and its two lookups (composer.rs:137-216).        *)
(***************************************************************************)
\* resolve_import answering the first import when the name is absent.
resolve_import_lenient(g, component, import_name) ==
    LET def == g.components[Min(get_component_by_name(g, component))]
        hit == import_by_name(def, import_name)
    IN  IF hit # {} THEN [err |-> NoErr, index |-> Min(hit)]
        ELSE [err |-> NoErr, index |-> 1]
\* composer.rs:158-180
resolve_import(g, component, import_name) ==
    LET def == g.components[Min(get_component_by_name(g, component))]
        hit == import_by_name(def, import_name)
    IN  IF hit # {} THEN [err |-> NoErr, index |-> Min(hit)]
        ELSE [err |-> Err("import", component,
                          "does not export an instance named", import_name),
              index |-> 0]

\* resolve_export without the guard on the kind of the export.
resolve_export_any_kind(g, component, export_name) ==
    LET def == g.components[Min(get_component_by_name(g, component))]
        hit == export_by_name(def, export_name)
    IN  IF hit # {}
        THEN [err |-> NoErr, index |-> Min(hit)]
        ELSE [err |-> Err("export", component,
                          "does not export an instance named", export_name),
              index |-> 0]
\* composer.rs:182-216
resolve_export(g, component, export_name) ==
    LET def == g.components[Min(get_component_by_name(g, component))]
        hit == export_by_name(def, export_name)
    IN  IF hit # {} /\ def.exports[Min(hit)].kind = "instance"
        THEN [err |-> NoErr, index |-> Min(hit)]
        ELSE [err |-> Err("export", component,
                          "does not export an instance named", export_name),
              index |-> 0]

\* CompositionGraph::connect as called at composer.rs:149-154: an import is
\* connected once, to an instance-kind import; whether the types are
\* compatible is the library's verdict, `compatible`.
graph_connect(g, source, source_export, target, target_import, compatible) ==
    LET inst == g.instances[target]
        def  == g.components[inst.component]
    IN  IF target_import \notin DOMAIN def.imports
        THEN [err |-> Err("graph", def.name, "no such import", ""), graph |-> g]
        ELSE IF target_import \in inst.connected
        THEN [err |-> Err("graph", def.name, "import is already connected",
                          def.imports[target_import].name),
              graph |-> g]
        ELSE IF def.imports[target_import].ty.kind # "instance" \/ ~compatible
        THEN [err |-> Err("graph", def.name, "source is not compatible with import",
                          def.imports[target_import].name),
              graph |-> g]
        ELSE [err |-> NoErr,
              graph |-> [g EXCEPT
                  !.instances[target].connected = @ \cup {target_import},
                  !.connections = @ \cup {[source |-> source,
                                           source_export |-> source_export,
                                           target |-> target,
                                           target_import |-> target_import]}]]

\* connect looking up the export `api` when the manifest names none.
connect_default_export(g, insts, source, source_export, target, target_import, compatible) ==
    LET ti == resolve_import(g, target, target_import)
        se == resolve_export(g, source,
                             IF source_export # None THEN source_export[1] ELSE "api")
    IN  IF source \notin DOMAIN insts \/ target \notin DOMAIN insts
        THEN [err |-> Err("panic", target, "unwrap", ""), graph |-> g]
        ELSE IF ti.err # NoErr THEN [err |-> ti.err, graph |-> g]
        ELSE IF se.err # NoErr THEN [err |-> se.err, graph |-> g]
        ELSE graph_connect(g, insts[source], Some(se.index),
                           insts[target], ti.index, compatible)
\* composer.rs:137-155
connect(g, insts, source, source_export, target, target_import, compatible) ==
    LET ti == resolve_import(g, target, target_import)
        se == IF source_export # None
              THEN resolve_export(g, source, source_export[1])
              ELSE [err |-> NoErr, index |-> 0]
    IN  IF source \notin DOMAIN insts \/ target \notin DOMAIN insts
        THEN [err |-> Err("panic", target, "unwrap", ""), graph |-> g]
        ELSE IF ti.err # NoErr THEN [err |-> ti.err, graph |-> g]
        ELSE IF se.err # NoErr THEN [err |-> se.err, graph |-> g]
        ELSE graph_connect(g, insts[source],
                           IF source_export # None THEN Some(se.index) ELSE None,
                           insts[target], ti.index, compatible)

(***************************************************************************)
(* One composition run: SpinComposer::new().compose(root)                  *)
(* (lib.rs:16, composer.rs:17-43).  The recursion of add_dependencies and  *)
(* build_composition is the stack `calls`, the innermost call last.        *)
(***************************************************************************)
\* failedIn: the stage the error came from.
NoResult == [status |-> "none", instance |-> 0, err |-> NoErr, failedIn |-> "",
             bytes |-> None]

\* No pair of runs is being compared.
OrdIdle == permuted = <<>> /\ outcomes = <<>>

EmptyApp == [triggers |-> <<>>, components |-> <<>>]

NormIdle ==
    /\ given = EmptyApp /\ app = EmptyApp
    /\ normPc = "idle" /\ normI = 0
    /\ trigger_ids = {} /\ counter = 0
    /\ component_ids = {} /\ normalized = <<>> /\ minted = <<>>

CompIdle ==
    /\ manifest = EmptyManifest /\ graph = EmptyGraph
    /\ components = <<>> /\ instances = <<>> /\ visited = {}
    /\ calls = <<>> /\ stage = "Idle" /\ result = NoResult /\ trace = <<>>

Init ==
    /\ manifest \in Manifests
    /\ graph = EmptyGraph
    /\ components = <<>>
    /\ instances = <<>>
    /\ visited = {}
    /\ calls = <<>>
    /\ stage = "Empty"
    /\ result = NoResult
    /\ trace = <<>>
    /\ IsoIdle
    /\ OrdIdle
    /\ NormIdle

Registry == [graph |-> graph, components |-> components,
             instances |-> instances, trace |-> trace]

Top == calls[Len(calls)]

\* An error leaves compose: the run has failed, nothing is returned.
Fail(e) ==
    /\ stage' = "Failed"
    /\ result' = [result EXCEPT !.status = "err", !.err = e, !.failedIn = stage]
    /\ calls' = <<>>

\* composer.rs:26: the root is registered.
ComposeAddRoot ==
    /\ stage = "Empty"
    /\ \E outcome \in Outcomes :
         LET r == add_component(Registry, Root, outcome) IN
         /\ graph' = r.graph
         /\ components' = r.components
         /\ instances' = r.instances
         /\ trace' = r.trace
         /\ IF r.err # NoErr THEN Fail(r.err)
            ELSE /\ stage' = "Resolving"
                 /\ result' = [result EXCEPT !.instance = r.ret]
                 /\ calls' = <<Frame("deps", Root, 1, "enter")>>
    /\ UNCHANGED <<manifest, visited>>
    /\ UNCHANGED isoVars
    /\ UNCHANGED ordVars
    /\ UNCHANGED normVars

\* visited.insert answering "inserted" whatever the set holds.
VisitedInsertAlways(v, id) == [inserted |-> TRUE, set |-> v \cup {id}]
\* visited.insert(c.id()) (composer.rs:96)
VisitedInsert(v, id) == [inserted |-> id \notin v, set |-> v \cup {id}]

\* visited.clear() in the place of the removal.
VisitedRemoveAll(v, id) == {}
\* visited.remove that removes nothing.
VisitedRemoveNothing(v, id) == v
\* visited.remove(dep.id()) (composer.rs:113)
VisitedRemove(v, id) == v \ {id}

\* import.component read as the component of the first import.
ImportTargetFirst(m, c, i) == m[c][1].component
\* import.component (composer.rs:100, 123)
ImportTarget(m, c, i) == m[c][i].component

\* The loop left after its first import.
ImportCountFirstOnly(m, c) == IF m[c] = <<>> THEN 0 ELSE 1
\* composer.rs:99: for (name, import) in c.imports(): how many there are.
ImportCount(m, c) == Len(m[c])

\* composer.rs:96-98: add_dependencies is entered for Top.c; the error of a
\* re-entry is the message `cycle` and nothing else.
DepsEnter ==
    /\ stage = "Resolving"
    /\ Top.fn = "deps" /\ Top.pc = "enter"
    /\ LET ins == VisitedInsert(visited, Top.c) IN
       /\ visited' = ins.set
       /\ IF ~ins.inserted
          THEN /\ Fail(Err("cycle", "", "cycle", ""))
          ELSE /\ calls' = [calls EXCEPT ![Len(calls)].pc = "loop"]
               /\ UNCHANGED <<stage, result>>
    /\ UNCHANGED <<manifest, graph, components, instances, trace>>
    /\ UNCHANGED isoVars
    /\ UNCHANGED ordVars
    /\ UNCHANGED normVars

\* The error of the lookup without the identity that is missing.
UndefinedDependencyUnnamed(c, dep, name) == Err("undefined", c, "", name)
\* composer.rs:101-105: the error naming the component, the dependency and
\* the import.
UndefinedDependency(c, dep, name) == Err("undefined", c, dep, name)

\* composer.rs:99-112: one import of Top.c: the dependency is looked up,
\* registered, and add_dependencies is called on it.
DepsImport ==
    /\ stage = "Resolving"
    /\ Top.fn = "deps" /\ Top.pc = "loop"
    /\ Top.i <= ImportCount(manifest, Top.c)
    /\ LET dep == ImportTarget(manifest, Top.c, Top.i) IN
       IF ~Declared(manifest, dep)
       THEN /\ Fail(UndefinedDependency(Top.c, dep, manifest[Top.c][Top.i].name))
            /\ UNCHANGED <<graph, components, instances, trace>>
       ELSE \E outcome \in Outcomes :
              LET r == add_component(Registry, dep, outcome) IN
              /\ graph' = r.graph
              /\ components' = r.components
              /\ instances' = r.instances
              /\ trace' = r.trace
              /\ IF r.err # NoErr THEN Fail(r.err)
                 ELSE /\ calls' = Append(calls, Frame("deps", dep, 1, "enter"))
                      /\ UNCHANGED <<stage, result>>
    /\ UNCHANGED <<manifest, visited>>
    /\ UNCHANGED isoVars
    /\ UNCHANGED ordVars
    /\ UNCHANGED normVars

\* composer.rs:116 and 113: add_dependencies returns Ok to its caller, which
\* removes the dependency from visited and goes on with its next import.
DepsReturn ==
    /\ stage = "Resolving"
    /\ Top.fn = "deps" /\ Top.pc = "loop"
    /\ Top.i > ImportCount(manifest, Top.c)
    /\ Len(calls) > 1
    /\ visited' = VisitedRemove(visited, Top.c)
    /\ calls' = [SubSeq(calls, 1, Len(calls) - 1)
                   EXCEPT ![Len(calls) - 1].i = @ + 1]
    /\ UNCHANGED <<manifest, graph, components, instances, stage, result, trace>>
    /\ UNCHANGED isoVars
    /\ UNCHANGED ordVars
    /\ UNCHANGED normVars

\* composer.rs:27-28: the root's add_dependencies has returned Ok, and
\* build_composition is called on the root.
DepsDone ==
    /\ stage = "Resolving"
    /\ Top.fn = "deps" /\ Top.pc = "loop"
    /\ Top.i > ImportCount(manifest, Top.c)
    /\ Len(calls) = 1
    /\ stage' = "Wiring"
    /\ calls' = <<Frame("build", Root, 1, 1)>>
    /\ UNCHANGED <<manifest, graph, components, instances, visited, result, trace>>
    /\ UNCHANGED isoVars
    /\ UNCHANGED ordVars
    /\ UNCHANGED normVars

\* The loop body of build_composition with the connect before the call.
BuildStepsConnectFirst == <<"connect", "call">>
\* The statements of the loop body of build_composition, in order
\* (composer.rs:123-131).
BuildSteps == <<"call", "connect">>

\* The frame left where it is.
AdvanceNever(f) == f
\* The frame after one statement of the loop body.
Advance(f) ==
    IF f.pc < Len(BuildSteps) THEN [f EXCEPT !.pc = @ + 1]
    ELSE [f EXCEPT !.pc = 1, !.i = @ + 1]

\* composer.rs:123-124: build_composition is called on the dependency.
BuildCall ==
    /\ stage = "Wiring"
    /\ Top.fn = "build"
    /\ Top.i <= Len(manifest[Top.c])
    /\ BuildSteps[Top.pc] = "call"
    /\ LET dep == ImportTarget(manifest, Top.c, Top.i) IN
       IF ~Declared(manifest, dep)
       THEN Fail(Err("panic", Top.c, "unwrap", dep))
       ELSE /\ calls' = Append([calls EXCEPT ![Len(calls)] = Advance(@)],
                               Frame("build", dep, 1, 1))
            /\ UNCHANGED <<stage, result>>
    /\ UNCHANGED <<manifest, graph, components, instances, visited, trace>>
    /\ UNCHANGED isoVars
    /\ UNCHANGED ordVars
    /\ UNCHANGED normVars

\* composer.rs:126-131: the dependency is connected into the import.
BuildConnect ==
    /\ stage = "Wiring"
    /\ Top.fn = "build"
    /\ Top.i <= Len(manifest[Top.c])
    /\ BuildSteps[Top.pc] = "connect"
    /\ \E compatible \in BOOLEAN :
         LET import == manifest[Top.c][Top.i]
             dep    == ImportTarget(manifest, Top.c, Top.i)
             r      == connect(graph, instances, dep, import.export,
                               Top.c, import.name, compatible)
         IN  /\ graph' = r.graph
             /\ trace' = Append(trace, Event("connect", Top.c, dep, import.name,
                                             import.export,
                                             IF r.err = NoErr THEN 1 ELSE 0))
             /\ IF r.err # NoErr THEN Fail(r.err)
                ELSE /\ calls' = [calls EXCEPT ![Len(calls)] = Advance(@)]
                     /\ UNCHANGED <<stage, result>>
    /\ UNCHANGED <<manifest, components, instances, visited>>
    /\ UNCHANGED isoVars
    /\ UNCHANGED ordVars
    /\ UNCHANGED normVars

\* composer.rs:134: build_composition returns Ok to its caller.
BuildReturn ==
    /\ stage = "Wiring"
    /\ Top.fn = "build"
    /\ Top.i > Len(manifest[Top.c])
    /\ Len(calls) > 1
    /\ calls' = SubSeq(calls, 1, Len(calls) - 1)
    /\ UNCHANGED <<manifest, graph, components, instances, visited, stage, result, trace>>
    /\ UNCHANGED isoVars
    /\ UNCHANGED ordVars
    /\ UNCHANGED normVars

\* composer.rs:28: the root's build_composition has returned Ok.
BuildDone ==
    /\ stage = "Wiring"
    /\ Top.fn = "build"
    /\ Top.i > Len(manifest[Top.c])
    /\ Len(calls) = 1
    /\ stage' = "Unifying"
    /\ calls' = <<>>
    /\ UNCHANGED <<manifest, graph, components, instances, visited, result, trace>>
    /\ UNCHANGED isoVars
    /\ UNCHANGED ordVars
    /\ UNCHANGED normVars

\* composer.rs:30: unify_imported_resources; it returns nothing.
Unify ==
    /\ stage = "Unifying"
    /\ trace' = Append(trace, Event("unify", "", "", "", None, 0))
    /\ stage' = "Encoding"
    /\ UNCHANGED <<manifest, graph, components, instances, visited, calls, result>>
    /\ UNCHANGED isoVars
    /\ UNCHANGED ordVars
    /\ UNCHANGED normVars

\* Bytes handed back although encode failed.
EncodedBytesAlways(g, export, encoded) ==
    Some([export |-> export, definitions |-> Len(g.components)])
\* What encode hands back: the bytes, exporting `export`, or nothing.
EncodedBytes(g, export, encoded) ==
    IF encoded THEN Some([export |-> export, definitions |-> Len(g.components)])
    ELSE None

\* The instance created last taken for the one to export.
ExportedInstanceLast(root_instance, g) == Len(g.instances)
\* composer.rs:34: export: Some(instance_id), the id add_component returned
\* for the root at composer.rs:26.
ExportedInstance(root_instance, g) == root_instance

\* The error of encode handed on without its context.
EncodeErrorBare(root) == Err("encode", "", "", "")
\* composer.rs:32-36: the error of encode, in the context naming the root.
EncodeError(root) == Err("encode", root, "encoding composed component", "")

\* composer.rs:32-42: encode, exporting the root's instance; the library's
\* encoder may refuse the graph.
Encode ==
    /\ stage = "Encoding"
    /\ \E encoded \in BOOLEAN :
         /\ trace' = Append(trace, Event("encode", "", "", "", None,
                                         IF encoded THEN 1 ELSE 0))
         /\ stage' = IF encoded THEN "Encoded" ELSE "Failed"
         /\ result' = [result EXCEPT
                         !.status = IF encoded THEN "ok" ELSE "err",
                         !.err = IF encoded THEN NoErr
                                 ELSE EncodeError(Root),
                         !.failedIn = IF encoded THEN "" ELSE stage,
                         !.bytes = EncodedBytes(graph,
                                               ExportedInstance(result.instance, graph),
                                               encoded)]
    /\ UNCHANGED <<manifest, graph, components, instances, visited, calls>>
    /\ UNCHANGED isoVars
    /\ UNCHANGED ordVars
    /\ UNCHANGED normVars

Next ==
    \/ ComposeAddRoot
    \/ DepsEnter
    \/ DepsImport
    \/ DepsReturn
    \/ DepsDone
    \/ BuildCall
    \/ BuildConnect
    \/ BuildReturn
    \/ BuildDone
    \/ Unify
    \/ Encode

Spec == Init /\ [][Next]_vars

\* The manifests whose imports all take a whole instance: the export an
\* import names plays no part in either recursion.
WholeInstanceManifests ==
    {m \in Manifests : \A c \in Ids : \A i \in DOMAIN m[c] : m[c][i].export = None}

InitFair == Init /\ manifest \in WholeInstanceManifests

\* compose is sequential code: as long as a step is left, one is taken.
SpecFair == InitFair /\ [][Next]_vars /\ WF_vars(Next)

(***************************************************************************)
(* SpecIsolate: one run of isolate::imports.                               *)
(***************************************************************************)
InitIsolate ==
    /\ \E input \in InputBinaries :
         /\ bytes = componentize_if_necessary(input)
         /\ payloads = parse_all(componentize_if_necessary(input))
    /\ prefix \in Prefixes
    /\ output = <<>>
    /\ stack = <<>>
    /\ depth = 0
    /\ isoPc = "loop"
    /\ CompIdle
    /\ OrdIdle
    /\ NormIdle

NextIsolate ==
    \/ IsoVersion
    \/ IsoEnterNested
    \/ IsoEnd
    \/ IsoImportSection
    \/ IsoRawSection
    \/ IsoValidate

SpecIsolate == InitIsolate /\ [][NextIsolate]_vars

(***************************************************************************)
(* SpecOrder: compose as a function of the manifest and of what the        *)
(* environment answers, run on a manifest and on the same manifest with    *)
(* the import lists in another order.                                      *)
(***************************************************************************)
\* env.bad: the identity whose source cannot be read ("" for none);
\* env.incompatible: the <<target, import>> whose type the source does not
\* satisfy; env.encoded: the verdict of encode.
OutcomeOf(env, id) == IF id = env.bad THEN "read_err" ELSE "ok"
CompatibleIn(env, target, import) == <<target, import>> # env.incompatible

Envs ==
    [bad : {"", "b", "c"},
     incompatible : {<<"", "">>} \cup ({"a", "b"} \X {"x", "y"}),
     encoded : BOOLEAN]

DepsAnswer(st, v, err) == [st |-> st, visited |-> v, err |-> err]

RegistryOf(r) == [graph |-> r.graph, components |-> r.components,
                  instances |-> r.instances, trace |-> r.trace]

RECURSIVE add_dependencies(_, _, _, _, _)
RECURSIVE add_dependencies_loop(_, _, _, _, _, _)
RECURSIVE deps_registered(_, _, _, _, _, _)
RECURSIVE deps_resolved(_, _, _, _, _)

\* composer.rs:95-117
add_dependencies(st, v, m, c, env) ==
    IF ~VisitedInsert(v, c).inserted
    THEN DepsAnswer(st, VisitedInsert(v, c).set, Err("cycle", "", "cycle", ""))
    ELSE add_dependencies_loop(st, VisitedInsert(v, c).set, m, c, 1, env)

\* composer.rs:99-106: the loop from its i-th import on: the lookup of the
\* dependency, then its registration.
add_dependencies_loop(st, v, m, c, i, env) ==
    IF i > ImportCount(m, c) THEN DepsAnswer(st, v, NoErr)
    ELSE IF ~Declared(m, ImportTarget(m, c, i))
    THEN DepsAnswer(st, v, UndefinedDependency(c, ImportTarget(m, c, i), m[c][i].name))
    ELSE deps_registered(add_component(st, ImportTarget(m, c, i),
                                       OutcomeOf(env, ImportTarget(m, c, i))),
                         v, m, c, i, env)

\* composer.rs:107-112: the `?` on add_component's answer r, then the
\* recursion into the dependency.
deps_registered(r, v, m, c, i, env) ==
    IF r.err # NoErr THEN DepsAnswer(RegistryOf(r), v, r.err)
    ELSE deps_resolved(add_dependencies(RegistryOf(r), v, m, ImportTarget(m, c, i), env),
                       m, c, i, env)

\* composer.rs:112-113: the `?` on the recursion's answer d, then
\* visited.remove and the next import.
deps_resolved(d, m, c, i, env) ==
    IF d.err # NoErr THEN d
    ELSE add_dependencies_loop(d.st, VisitedRemove(d.visited, ImportTarget(m, c, i)),
                               m, c, i + 1, env)

RECURSIVE build_composition(_, _, _, _, _)
RECURSIVE build_composition_loop(_, _, _, _, _, _)
RECURSIVE build_built(_, _, _, _, _, _)
RECURSIVE build_connected(_, _, _, _, _, _)

\* composer.rs:119-135
build_composition(g, insts, m, c, env) ==
    build_composition_loop(g, insts, m, c, 1, env)

\* composer.rs:122-124: the loop from its i-th import on: the lookup of the
\* dependency and the recursion into it.
build_composition_loop(g, insts, m, c, i, env) ==
    IF i > Len(m[c]) THEN [err |-> NoErr, graph |-> g]
    ELSE IF ~Declared(m, ImportTarget(m, c, i))
    THEN [err |-> Err("panic", c, "unwrap", ImportTarget(m, c, i)), graph |-> g]
    ELSE build_built(build_composition(g, insts, m, ImportTarget(m, c, i), env),
                     insts, m, c, i, env)

\* composer.rs:124-131: the `?` on the recursion's answer b, then connect.
build_built(b, insts, m, c, i, env) ==
    IF b.err # NoErr THEN b
    ELSE build_connected(connect(b.graph, insts, ImportTarget(m, c, i), m[c][i].export,
                                 c, m[c][i].name, CompatibleIn(env, c, m[c][i].name)),
                         insts, m, c, i, env)

\* composer.rs:131: the `?` on connect's answer r, then the next import.
build_connected(r, insts, m, c, i, env) ==
    IF r.err # NoErr THEN r
    ELSE build_composition_loop(r.graph, insts, m, c, i + 1, env)

\* A connection by the names of its ends.
NamedConnection(g, cn) ==
    [source        |-> g.components[g.instances[cn.source].component].name,
     source_export |-> IF cn.source_export = None THEN None
                       ELSE Some(g.components[g.instances[cn.source].component]
                                    .exports[cn.source_export[1]].name),
     target        |-> g.components[g.instances[cn.target].component].name,
     target_import |-> g.components[g.instances[cn.target].component]
                          .imports[cn.target_import].name]

\* What is seen of a run: Ok or Err, the error, the identities registered,
\* the connections made, the instance exported.
Outcome(ok, err, g, comps, export) ==
    [ok          |-> ok,
     err         |-> err,
     registered  |-> DOMAIN comps,
     connections |-> {NamedConnection(g, cn) : cn \in g.connections},
     export      |-> export]

\* composer.rs:30-42: unify, then encode exporting the root's instance; b is
\* what build_composition answered.
compose_encode(root_instance, b, comps, env) ==
    IF b.err # NoErr THEN Outcome(FALSE, b.err, b.graph, comps, None)
    ELSE IF ~env.encoded
    THEN Outcome(FALSE, EncodeError(Root), b.graph, comps, None)
    ELSE Outcome(TRUE, NoErr, b.graph, comps,
                 Some(b.graph.components[b.graph.instances[
                          ExportedInstance(root_instance, b.graph)].component].name))

\* composer.rs:27-28: the `?` on add_dependencies' answer d, then
\* build_composition.
compose_build(root_instance, d, m, env) ==
    IF d.err # NoErr THEN Outcome(FALSE, d.err, d.st.graph, d.st.components, None)
    ELSE compose_encode(root_instance,
                        build_composition(d.st.graph, d.st.instances, m, Root, env),
                        d.st.components, env)

\* composer.rs:26-27: the `?` on the root's registration r, then
\* add_dependencies with a fresh visited set.
compose_resolve(r, m, env) ==
    IF r.err # NoErr THEN Outcome(FALSE, r.err, r.graph, r.components, None)
    ELSE compose_build(r.ret, add_dependencies(RegistryOf(r), {}, m, Root, env), m, env)

\* composer.rs:25-43
compose(m, env) ==
    compose_resolve(add_component([graph |-> EmptyGraph, components |-> <<>>,
                                   instances |-> <<>>, trace |-> <<>>],
                                  Root, OutcomeOf(env, Root)),
                    m, env)

\* The orders a list can be put in.
Orders(list) ==
    {[i \in DOMAIN list |-> list[p[i]]] :
        p \in {q \in [DOMAIN list -> DOMAIN list] :
                  \A i, j \in DOMAIN list : i # j => q[i] # q[j]}}

\* The manifests that differ from m in the order of the import lists of
\* the components of S only.
RECURSIVE ReorderingsOver(_, _)
ReorderingsOver(m, S) ==
    IF S = {} THEN {m}
    ELSE LET c == CHOOSE x \in S : TRUE
         IN  UNION {{[r EXCEPT ![c] = o] : o \in Orders(m[c])}
                    : r \in ReorderingsOver(m, S \ {c})}

Reorderings(m) == ReorderingsOver(m, DOMAIN m)

InitOrder ==
    /\ manifest \in Manifests
    /\ graph = EmptyGraph /\ components = <<>> /\ instances = <<>>
    /\ visited = {} /\ calls = <<>> /\ stage = "Idle"
    /\ result = NoResult /\ trace = <<>>
    /\ IsoIdle
    /\ OrdIdle
    /\ NormIdle

\* The manifest and another order of it are composed in one environment.
OrderCompose ==
    /\ outcomes = <<>>
    /\ \E p \in Reorderings(manifest) \ {manifest} : \E env \in Envs :
          /\ permuted' = p
          /\ outcomes' = <<compose(manifest, env), compose(p, env)>>
    /\ UNCHANGED compVars
    /\ UNCHANGED isoVars
    /\ UNCHANGED normVars

NextOrder == OrderCompose

SpecOrder == InitOrder /\ [][NextOrder]_vars

(***************************************************************************)
(* normalize_manifest (crates/manifest/src/normalize.rs).  The maps of the *)
(* manifest are sequences of entries in iteration order; an Option is a    *)
(* sequence of at most one element.                                        *)
(***************************************************************************)
\* The deepest inline component inside an inline component.
MaxInline == 1

\* ComponentSpec::Reference(id) and ComponentSpec::Inline(component)
Reference(id) == [kind |-> "Reference", id |-> id]
Inline(c)     == [kind |-> "Inline", component |-> c]

\* A component: its source, which tells it apart, and its imports.
Component(source, imps) == [source |-> source, imports |-> imps]

\* A trigger: its id, its `component` and its `components`, flattened.
Trigger(id, component, comps) ==
    [id |-> id, component |-> component, components |-> comps]

\* Map: the keys, and insert, which replaces the value of a key it holds.
Entry(id, c) == [id |-> id, component |-> c]
Keys(m)      == {m[i].id : i \in DOMAIN m}
MapInsert(m, id, c) ==
    IF id \in Keys(m)
    THEN [i \in DOMAIN m |-> IF m[i].id = id THEN Entry(id, c) ELSE m[i]]
    ELSE Append(m, Entry(id, c))

\* Map::extend
RECURSIVE MapExtend(_, _)
MapExtend(m, more) ==
    IF more = <<>> THEN m
    ELSE MapExtend(MapInsert(m, Head(more).id, Head(more).component), Tail(more))

\* KebabId::try_from: the strings of the model that are not kebab-case.
NotKebab     == {"Bad Id-component"}
KebabIdOk(s) == s \notin NotKebab

\* The one trigger type of the model.
TriggerType == "http"

\* format!("{component_id}-{trigger_type}-trigger")
TriggerCandidate(component_id) == component_id \o "-" \o TriggerType \o "-trigger"
\* format!("{trigger_type}-trigger{counter}")
TriggerCounterId(n) == TriggerType \o "-trigger" \o ToString(n)
\* format!("{trigger_id}-component")
TriggerNatural(trigger_id) == trigger_id \o "-component"
\* format!("{component_id}-import")
ImportNatural(component_id) == component_id \o "-import"
\* format!("inline-component{counter}")
InlineCounterId(n) == "inline-component" \o ToString(n)

\* normalize.rs:141-148: the counter at which the loop breaks.
RECURSIVE FreeTriggerCounter(_, _)
FreeTriggerCounter(ids, n) ==
    IF TriggerCounterId(n) \notin ids THEN n ELSE FreeTriggerCounter(ids, n + 1)

\* normalize.rs:34-40 and 95-101: the counter at which the loop breaks.
RECURSIVE FreeCounter(_, _)
FreeCounter(ids, n) ==
    IF InlineCounterId(n) \notin ids THEN n ELSE FreeCounter(ids, n + 1)

\* A natural id taken whether or not it is in use.
IdTakenNever(ids, id) == FALSE
\* normalize.rs:33 component_ids.contains, normalize.rs:93 contains_key
IdTaken(ids, id) == id \in ids

\* The id and the counter after the fallback loop.
CounterBased(n) == [id |-> InlineCounterId(n), counter |-> n]

\* normalize.rs:87-104: the id of an inline trigger component.
TriggerInlineId(trigger_id, multiple_components, keys, n) ==
    IF \/ multiple_components
       \/ ~KebabIdOk(TriggerNatural(trigger_id))
       \/ IdTaken(keys, TriggerNatural(trigger_id))
    THEN CounterBased(FreeCounter(keys, n))
    ELSE [id |-> TriggerNatural(trigger_id), counter |-> n]

\* normalize.rs:29-43: the id of an inline import.
ImportInlineId(component_id, ids, n) ==
    IF \/ ~KebabIdOk(ImportNatural(component_id))
       \/ IdTaken(ids, ImportNatural(component_id))
    THEN CounterBased(FreeCounter(ids, n))
    ELSE [id |-> ImportNatural(component_id), counter |-> n]

\* What an inline component was given: its id and its source.
Minted(id, c) == [id |-> id, source |-> c.source]

\* normalize.rs:106-112: the spec becomes a reference, the component moves
\* into the components map.
MoveTriggerComponent(st, j, got) ==
    [specs      |-> [st.specs EXCEPT ![j] = Reference(got.id)],
     components |-> MapInsert(st.components, got.id, st.specs[j].component),
     counter    |-> got.counter,
     minted     |-> Append(st.minted, Minted(got.id, st.specs[j].component))]

\* normalize.rs:82-113: the loop over the specs of one trigger.
RECURSIVE InlineLoop(_, _, _, _)
InlineLoop(st, trigger_id, multiple_components, j) ==
    IF j > Len(st.specs) THEN st
    ELSE IF st.specs[j].kind # "Inline"
    THEN InlineLoop(st, trigger_id, multiple_components, j + 1)
    ELSE InlineLoop(MoveTriggerComponent(st, j,
                       TriggerInlineId(trigger_id, multiple_components,
                                       Keys(st.components), st.counter)),
                    trigger_id, multiple_components, j + 1)

\* normalize.rs:44-55: the import becomes a reference with the same export,
\* the id is reserved, the component is put into `normalized`.
MoveImportComponent(st, j, got) ==
    [imports    |-> [st.imports EXCEPT ![j] =
                        ComponentImport(st.imports[j].name, Reference(got.id),
                                        st.imports[j].export)],
     ids        |-> st.ids \cup {got.id},
     normalized |-> MapInsert(st.normalized, got.id,
                              st.imports[j].component.component),
     counter    |-> got.counter,
     minted     |-> Append(st.minted,
                           Minted(got.id, st.imports[j].component.component))]

\* normalize.rs:25-56: the loop over the imports of one component.
RECURSIVE ImportsLoop(_, _, _)
ImportsLoop(st, component_id, j) ==
    IF j > Len(st.imports) THEN st
    ELSE IF st.imports[j].component.kind # "Inline"
    THEN ImportsLoop(st, component_id, j + 1)
    ELSE ImportsLoop(MoveImportComponent(st, j,
                        ImportInlineId(component_id, st.ids, st.counter)),
                     component_id, j + 1)

(***************************************************************************)
(* The applications normalize_manifest is run on.                          *)
(***************************************************************************)
\* The inline components that hold k further levels of inline imports.
RECURSIVE InlineBodies(_)
InlineBodies(k) ==
    IF k = 0 THEN {Component("leaf", <<>>)}
    ELSE {Component("nest", <<ComponentImport("x", Inline(b), None)>>)
          : b \in InlineBodies(k - 1)}

ImportSpecs ==
    {Reference("a"), Reference(Undeclared)}
    \cup {Inline(b) : b \in UNION {InlineBodies(k) : k \in 0..MaxInline}}

ImportLists ==
    {<<>>}
    \cup {<<ComponentImport("x", s, None)>> : s \in ImportSpecs}
    \cup {<<ComponentImport("x", s1, None), ComponentImport("y", s2, Some("api"))>>
          : s1 \in ImportSpecs, s2 \in ImportSpecs}

\* The declared components in iteration order: some carry the ids that
\* normalization would generate.
DeclaredOrders ==
    {<<"a">>, <<"a", "a-import">>, <<"a", "inline-component1">>,
     <<"a-import", "a">>, <<"a", "a-import", "inline-component1">>}

ComponentsOver(order, imps, others) ==
    [i \in DOMAIN order |->
        Entry(order[i], Component(order[i], IF order[i] = "a" THEN imps ELSE others))]

TriggerMenu ==
    {Trigger("t", <<Inline(b)>>, <<>>) : b \in InlineBodies(0) \cup InlineBodies(1)}
    \cup {Trigger("", <<Reference("a")>>, <<>>),
          Trigger("", <<Inline(Component("leaf", <<>>))>>, <<>>),
          Trigger("Bad Id", <<Inline(Component("leaf", <<>>))>>, <<>>),
          Trigger("t", <<Inline(Component("leaf", <<>>))>>,
                       <<Inline(Component("other", <<>>))>>)}

TriggerLists ==
    {<<>>} \cup {<<t>> : t \in TriggerMenu} \cup {<<t, t>> : t \in TriggerMenu}

Applications ==
    {[triggers |-> ts, components |-> ComponentsOver(o, imps, others)]
     : ts \in TriggerLists, o \in DeclaredOrders, imps \in ImportLists,
       others \in {<<>>, <<ComponentImport("x", Inline(Component("leaf", <<>>)), None)>>}}

(***************************************************************************)
(* One run of normalize_manifest, loop pass by loop pass.                  *)
(***************************************************************************)
OthersIdle == IsoIdle /\ CompIdle /\ OrdIdle

InitNormalize ==
    /\ given \in Applications
    /\ app = given
    /\ normPc = "start" /\ normI = 0
    /\ trigger_ids = {} /\ counter = 0
    /\ component_ids = {} /\ normalized = <<>> /\ minted = <<>>
    /\ OthersIdle

OthersUnchanged == UNCHANGED isoVars /\ UNCHANGED compVars /\ UNCHANGED ordVars

\* normalize.rs:118-124: the ids of the triggers are collected.
NormStart ==
    /\ normPc = "start"
    /\ trigger_ids' = {app.triggers[i].id : i \in DOMAIN app.triggers}
    /\ counter' = 1
    /\ normI' = 1
    /\ normPc' = "trigger_ids"
    /\ UNCHANGED <<given, app, component_ids, normalized, minted>>
    /\ OthersUnchanged

\* The trigger has a component reference whose candidate id is free.
CandidateFree(trigger, ids) ==
    /\ Len(trigger.component) = 1
    /\ trigger.component[1].kind = "Reference"
    /\ TriggerCandidate(trigger.component[1].id) \notin ids

\* normalize.rs:127-149: the id the trigger leaves the loop body with.
TriggerId(trigger, ids, n) ==
    IF trigger.id # "" THEN trigger.id
    ELSE IF CandidateFree(trigger, ids)
    THEN TriggerCandidate(trigger.component[1].id)
    ELSE TriggerCounterId(FreeTriggerCounter(ids, n))

\* normalize.rs:127-149: one trigger of normalize_trigger_ids.
NormTriggerId ==
    /\ normPc = "trigger_ids" /\ normI <= Len(app.triggers)
    /\ app' = [app EXCEPT !.triggers[normI].id =
                  TriggerId(app.triggers[normI], trigger_ids, counter)]
    /\ trigger_ids' = trigger_ids
                      \cup {TriggerId(app.triggers[normI], trigger_ids, counter)}
    /\ counter' = IF /\ app.triggers[normI].id = ""
                     /\ ~CandidateFree(app.triggers[normI], trigger_ids)
                  THEN FreeTriggerCounter(trigger_ids, counter)
                  ELSE counter
    /\ normI' = normI + 1
    /\ UNCHANGED <<given, normPc, component_ids, normalized, minted>>
    /\ OthersUnchanged

\* normalize.rs:13: normalize_trigger_ids has returned.
NormInlineStart ==
    /\ normPc = "trigger_ids" /\ normI > Len(app.triggers)
    /\ normPc' = "inline"
    /\ normI' = 1
    /\ UNCHANGED <<given, app, trigger_ids, counter, component_ids, normalized, minted>>
    /\ OthersUnchanged

\* The state of the loop over the specs of trigger i, at its start.
TriggerSpecs(trigger) == trigger.component \o trigger.components
InlineEntry(i) ==
    [specs      |-> TriggerSpecs(app.triggers[i]),
     components |-> app.components,
     counter    |-> 1,
     minted     |-> minted]

\* The trigger with its specs replaced.
WithSpecs(trigger, specs) ==
    [trigger EXCEPT !.component  = SubSeq(specs, 1, Len(trigger.component)),
                    !.components = SubSeq(specs, Len(trigger.component) + 1, Len(specs))]

InlineAssign(i, st) ==
    /\ app' = [triggers   |-> [app.triggers EXCEPT ![i] = WithSpecs(@, st.specs)],
               components |-> st.components]
    /\ minted' = st.minted

\* normalize.rs:66-114: one trigger of normalize_inline_components.
NormInlineTrigger ==
    /\ normPc = "inline" /\ normI <= Len(app.triggers)
    /\ InlineAssign(normI,
                    InlineLoop(InlineEntry(normI), app.triggers[normI].id,
                               Len(TriggerSpecs(app.triggers[normI])) > 1, 1))
    /\ normI' = normI + 1
    /\ UNCHANGED <<given, normPc, trigger_ids, counter, component_ids, normalized>>
    /\ OthersUnchanged

\* normalize.rs:18-20: normalize_component_imports starts.
NormImportsStart ==
    /\ normPc = "inline" /\ normI > Len(app.triggers)
    /\ component_ids' = Keys(app.components)
    /\ normalized' = <<>>
    /\ normPc' = "imports"
    /\ normI' = 1
    /\ UNCHANGED <<given, app, trigger_ids, counter, minted>>
    /\ OthersUnchanged

ImportsEntry(i) ==
    [imports    |-> app.components[i].component.imports,
     ids        |-> component_ids,
     normalized |-> normalized,
     counter    |-> 1,
     minted     |-> minted]

ImportsAssign(i, st) ==
    /\ app' = [app EXCEPT !.components[i].component.imports = st.imports]
    /\ component_ids' = st.ids
    /\ normalized' = st.normalized
    /\ minted' = st.minted

\* normalize.rs:22-57: one component of manifest.components.iter_mut().
NormImportsOf ==
    /\ normPc = "imports" /\ normI <= Len(app.components)
    /\ ImportsAssign(normI, ImportsLoop(ImportsEntry(normI), app.components[normI].id, 1))
    /\ normI' = normI + 1
    /\ UNCHANGED <<given, normPc, trigger_ids, counter>>
    /\ OthersUnchanged

\* normalize.rs:59: manifest.components.extend(normalized)
NormExtend ==
    /\ normPc = "imports" /\ normI > Len(app.components)
    /\ app' = [app EXCEPT !.components = MapExtend(@, normalized)]
    /\ normalized' = <<>>
    /\ normPc' = "done"
    /\ UNCHANGED <<given, normI, trigger_ids, counter, component_ids, minted>>
    /\ OthersUnchanged

NextNormalize ==
    \/ NormStart
    \/ NormTriggerId
    \/ NormInlineStart
    \/ NormInlineTrigger
    \/ NormImportsStart
    \/ NormImportsOf
    \/ NormExtend

SpecNormalize == InitNormalize /\ [][NextNormalize]_vars

(***************************************************************************)
(* Vocabulary of the properties.                                           *)
(***************************************************************************)
PastResolving == stage \in {"Wiring", "Unifying", "Encoding", "Encoded"}
Finished      == stage \in {"Encoded", "Failed"}

\* The definitions and the instances the graph holds for an identity.
DefinitionsOf(id) == get_component_by_name(graph, id)
InstancesOf(id) ==
    {k \in DOMAIN graph.instances :
        graph.components[graph.instances[k].component].name = id}

\* The positions of the trace holding an event e about identity id.
EventsOf(e, id) == {k \in DOMAIN trace : trace[k].e = e /\ trace[k].id = id}
Events(e)       == {k \in DOMAIN trace : trace[k].e = e}

(***************************************************************************)
(* C1.  Once resolution has succeeded, the registry holds exactly one      *)
(* definition and exactly one instance for every identity the root reaches *)
(* through manifest imports, and none for any other identity; in the       *)
(* diamond both B and C are connected to the one instance of D.            *)
(***************************************************************************)
C1_OnePerReachableIdentity ==
    /\ PastResolving =>
         \A id \in Ids \cup {Undeclared} :
            IF id \in Reachable(manifest)
            THEN /\ Cardinality(DefinitionsOf(id)) = 1
                 /\ Cardinality(InstancesOf(id)) = 1
                 /\ id \in DOMAIN components /\ components[id] \in DefinitionsOf(id)
                 /\ id \in DOMAIN instances /\ instances[id] \in InstancesOf(id)
            ELSE /\ DefinitionsOf(id) = {}
                 /\ InstancesOf(id) = {}
                 /\ id \notin DOMAIN components
                 /\ id \notin DOMAIN instances
    /\ (manifest = Diamond /\ stage \in {"Unifying", "Encoding", "Encoded"}) =>
         \A parent \in {"b", "c"} :
            \E conn \in graph.connections :
               /\ conn.source = instances["d"]
               /\ conn.target = instances[parent]

\* The diamond has been resolved, wired and encoded.
C1_Witness == manifest = Diamond /\ stage = "Encoded"

(***************************************************************************)
(* C2.  Registration is idempotent per identity: over a run the source of  *)
(* an identity is read at most once, isolated at most once and inserted    *)
(* into the graph at most once (by the first call, in that order); every   *)
(* call of add_component for the identity returns the instance of that     *)
(* first call; and the registered definition and instance stay what the    *)
(* first call made them.                                                   *)
(***************************************************************************)
C2_RegistrationIdempotent ==
    \A id \in Ids :
       /\ Cardinality(EventsOf("read", id)) <= 1
       /\ Cardinality(EventsOf("isolate", id)) <= 1
       /\ Cardinality(EventsOf("insert", id)) <= 1
       /\ \A k \in EventsOf("insert", id) :
             /\ k >= 3 /\ k < Len(trace)
             /\ trace[k - 2].e = "read" /\ trace[k - 2].id = id
             /\ trace[k - 1].e = "isolate" /\ trace[k - 1].id = id
             /\ trace[k + 1].e = "handle" /\ trace[k + 1].id = id
             /\ trace[k + 1].n = trace[k].n
       /\ \A k \in EventsOf("handle", id) :
             /\ \E j \in EventsOf("insert", id) : j < k /\ trace[j].n = trace[k].n
             /\ id \in DOMAIN instances /\ instances[id] = trace[k].n
             /\ id \in DOMAIN components
             /\ graph.instances[instances[id]].component = components[id]
             /\ graph.components[components[id]] = from_bytes(id, imports(Disk(id), id))

\* add_component has been called a second time for an identity.
C2_Witness == \E id \in Ids : Cardinality(EventsOf("handle", id)) >= 2

\* The errors a registration (add_component) can end with.
RegistrationErrors == {"no_source", "read", "validate"}

\* The identities of the calls of add_dependencies that are past their entry.
EnteredPath == {k \in DOMAIN calls : calls[k].fn = "deps" /\ calls[k].pc = "loop"}

(***************************************************************************)
(* C3, as the claim states it: whenever the dependency graph reachable     *)
(* from the root contains a cycle, the run ends with the cycle error, and  *)
(* no connect, unification or encode is performed and no bytes returned.   *)
(***************************************************************************)
C3_CycleEndsWithCycleError ==
    (HasCycle(manifest) /\ Finished) =>
        /\ stage = "Failed"
        /\ result.err.kind = "cycle"
        /\ result.bytes = None
        /\ Events("connect") = {} /\ Events("unify") = {} /\ Events("encode") = {}

(***************************************************************************)
(* C3, amended.  Whenever the dependency graph reachable from the root     *)
(* contains a cycle, the run never leaves resolution: no connect, no       *)
(* unification and no encode is performed, no bytes are returned, and a    *)
(* finished run has failed in resolution, with the cycle error unless an   *)
(* undeclared dependency or a failed registration was met first.  No       *)
(* identity is ever entered twice on one resolution path: the re-entry is  *)
(* reported at once.                                                       *)
(***************************************************************************)
C3_CycleFailsInResolution ==
    /\ HasCycle(manifest) =>
         /\ ~PastResolving
         /\ Events("connect") = {} /\ Events("unify") = {} /\ Events("encode") = {}
         /\ result.bytes = None /\ result.status # "ok"
         /\ stage = "Failed" =>
              /\ result.failedIn \in {"Empty", "Resolving"}
              /\ result.err.kind \in {"cycle", "undefined"} \cup RegistrationErrors
              /\ result.err.kind = "undefined" => HasUndeclared(manifest)
    /\ \A j, k \in EnteredPath : j # k => calls[j].c # calls[k].c

\* A cycle that does not pass through the root has been reported.
C3_Witness ==
    /\ HasCycle(manifest)
    /\ Root \notin Closure(manifest, Succ(manifest, Root))
    /\ stage = "Failed"
    /\ result.err.kind = "cycle"

(***************************************************************************)
(* C4.  The cycle error is reported only for a manifest whose reachable    *)
(* dependency graph has a cycle; for an acyclic one, resolution can fail   *)
(* only with an undeclared dependency (and then one is referenced) or with *)
(* a failed registration, so re-entering a registered identity that is off *)
(* the current path is no error.                                           *)
(***************************************************************************)
C4_NoCycleErrorWithoutCycle ==
    /\ (stage = "Failed" /\ result.err.kind = "cycle") => HasCycle(manifest)
    /\ (stage = "Failed" /\ result.failedIn \in {"Empty", "Resolving"}
                         /\ ~HasCycle(manifest)) =>
          /\ result.err.kind \in {"undefined"} \cup RegistrationErrors
          /\ result.err.kind = "undefined" => HasUndeclared(manifest)

\* Resolution has succeeded although a component imports one dependency
\* under two import names, so that the dependency was entered twice.
C4_Witness ==
    /\ PastResolving
    /\ \E c \in Ids : /\ Len(manifest[c]) = 2
                      /\ manifest[c][1].component = manifest[c][2].component

\* The definition the graph holds for a registered identity.
DefinitionOf(id) == graph.components[components[id]]

\* An import name of the allow-list.
AllowListed(name) == name \in {FS_PREOPENS, CLI_ENV}

(***************************************************************************)
(* C5.  Capability isolation: for two distinct registered identities p     *)
(* and q, the name an allow-listed import of p carries in p's definition   *)
(* differs from the name any allow-listed import of q carries in q's       *)
(* definition; the name is the original one scoped by the component's own  *)
(* identity.                                                               *)
(***************************************************************************)
C5_CapabilityImportsScoped ==
    \A p \in DOMAIN components : \A q \in DOMAIN components \ {p} :
       LET ip == DepthZeroImports(Disk(p))
           iq == DepthZeroImports(Disk(q))
           dp == DefinitionOf(p).imports
           dq == DefinitionOf(q).imports
       IN  /\ Len(dp) = Len(ip)
           /\ Len(dq) = Len(iq)
           /\ \A i \in DOMAIN ip :
                 AllowListed(ip[i].name) =>
                    /\ dp[i].name = p \o "-" \o ip[i].name
                    /\ \A j \in DOMAIN iq :
                          AllowListed(iq[j].name) => dp[i].name # dq[j].name

\* Two components that both import the environment capability are registered.
C5_Witness ==
    /\ PastResolving
    /\ {"a", "c"} \subseteq DOMAIN components
    /\ \E i \in DOMAIN DepthZeroImports(Disk("a")) :
          DepthZeroImports(Disk("a"))[i].name = CLI_ENV
    /\ \E j \in DOMAIN DepthZeroImports(Disk("c")) :
          DepthZeroImports(Disk("c"))[j].name = CLI_ENV

\* isolate::imports has left its loop.
IsoDone == isoPc \in {"validate", "ok", "err"}

(***************************************************************************)
(* C6.  When isolate::imports leaves its loop, the output holds one        *)
(* depth-0 import for every depth-0 import of the input, in order, with    *)
(* the same type reference, named `{prefix}-{original}` when the original  *)
(* name is one of the two allow-listed names and named as in the input     *)
(* otherwise (also when only the version differs).                         *)
(***************************************************************************)
C6_DepthZeroImportsRewritten ==
    IsoDone =>
       LET in  == DepthZeroImports(bytes)
           out == DepthZeroImports(output)
       IN  /\ Len(out) = Len(in)
           /\ \A i \in DOMAIN in :
                 /\ out[i].ty = in[i].ty
                 /\ out[i].name = IF AllowListed(in[i].name)
                                  THEN prefix \o "-" \o in[i].name
                                  ELSE in[i].name

\* A binary importing an allow-listed name, the same interface at another
\* version and a function has been rewritten.
C6_Witness ==
    /\ isoPc = "ok"
    /\ \E i, j \in DOMAIN DepthZeroImports(bytes) :
          /\ DepthZeroImports(bytes)[i].name = CLI_ENV
          /\ DepthZeroImports(bytes)[j].name \in {CLI_ENV_OTHER_VERSION, "run"}
    /\ \E k \in DOMAIN DepthZeroImports(output) :
          DepthZeroImports(output)[k].name = prefix \o "-" \o CLI_ENV

\* The nested definitions of a binary, in order.
NestedOf(bin) == SelectSeq(bin, LAMBDA s : s.t = "nested")

(***************************************************************************)
(* C7.  When isolate::imports leaves its loop, the nested modules and      *)
(* components of the output are those of the input, in order and           *)
(* identical at every nesting level (their own imports of allow-listed     *)
(* names included), while the allow-listed imports of depth 0 are renamed. *)
(***************************************************************************)
C7_NestedCopiedThrough ==
    IsoDone =>
       /\ NestedOf(output) = NestedOf(bytes)
       /\ \A i \in DOMAIN DepthZeroImports(bytes) :
             AllowListed(DepthZeroImports(bytes)[i].name) =>
                /\ i \in DOMAIN DepthZeroImports(output)
                /\ DepthZeroImports(output)[i].name # DepthZeroImports(bytes)[i].name

\* The input imports the environment capability at depth 0 and holds a
\* nested component that holds a nested definition importing it too.
C7_Witness ==
    /\ isoPc = "ok"
    /\ \E i \in DOMAIN bytes :
          /\ bytes[i].t = "nested"
          /\ bytes[i].body \in NestedBodies(1)
          /\ output[i] = bytes[i]
    /\ \E j \in DOMAIN DepthZeroImports(bytes) :
          /\ DepthZeroImports(bytes)[j].name = CLI_ENV
          /\ DepthZeroImports(output)[j].name = prefix \o "-" \o CLI_ENV

\* The stage of the run's state machine a position of compose belongs to:
\* unification and encoding are both steps of Unifying.
StageOf(s) == IF s = "Encoding" THEN "Unifying" ELSE s

StageOrder ==
    {<<"Empty", "Resolving">>, <<"Resolving", "Wiring">>,
     <<"Wiring", "Unifying">>, <<"Unifying", "Encoded">>}

Terminal == {"Encoded", "Failed"}

\* One step of the run respects the order of the stages.
C8_StageStep ==
    /\ stage \in Terminal => UNCHANGED vars
    /\ StageOf(stage') # StageOf(stage) =>
          \/ <<StageOf(stage), StageOf(stage')>> \in StageOrder
          \/ /\ stage' = "Failed"
             /\ result'.status = "err"
             /\ result'.failedIn = stage

\* What the events recorded so far and the result say about the stages.
C8_StageInvariant ==
    /\ \A k \in Events("read") \cup Events("isolate") \cup Events("insert")
                \cup Events("handle") :
          \A j \in Events("connect") : k < j
    /\ Events("connect") # {} => StageOf(stage) \in {"Wiring", "Unifying"} \cup Terminal
    /\ Cardinality(Events("unify")) <= 1
    /\ Cardinality(Events("encode")) <= 1
    /\ \A u \in Events("unify") : \A j \in Events("connect") : j < u
    /\ \A e \in Events("encode") : \E u \in Events("unify") : u < e
    /\ stage = "Encoded" => /\ Cardinality(Events("unify")) = 1
                            /\ Cardinality(Events("encode")) = 1
                            /\ result.status = "ok"
    /\ result.bytes # None <=> stage = "Encoded"
    /\ result.status = "err" <=> stage = "Failed"
    /\ stage = "Failed" =>
          /\ calls = <<>>
          /\ result.failedIn \in {"Empty", "Resolving", "Wiring", "Encoding"}
          /\ result.failedIn \in {"Empty", "Resolving"} => Events("connect") = {}
          /\ result.failedIn # "Encoding" => Events("unify") \cup Events("encode") = {}

(***************************************************************************)
(* C8.  A run goes through Empty, Resolving, Wiring, Unifying and Encoded  *)
(* in that order and enters each at most once; nothing is registered after *)
(* the first connect; unification runs exactly once, after the last        *)
(* connect and before encode; an error in any stage ends the run in        *)
(* Failed, where nothing more happens and no bytes are returned; bytes are *)
(* returned only in Encoded.                                               *)
(***************************************************************************)
C8_StagesInOrder == [](C8_StageInvariant) /\ [][C8_StageStep]_vars

\* A run with several connections has produced bytes.
C8_Witness ==
    /\ stage = "Encoded"
    /\ result.bytes # None
    /\ Cardinality(Events("connect")) >= 2
    /\ Cardinality(Events("insert")) >= 2

\* The connect events that succeeded for import `name` of component `id`.
ConnectedBefore(k, id, name) ==
    {j \in Events("connect") :
        j < k /\ trace[j].id = id /\ trace[j].name = name /\ trace[j].n = 1}

(***************************************************************************)
(* C9.  Wiring is bottom-up: when build_composition issues the connect of  *)
(* a dependency into an import of a component, every import the manifest   *)
(* declares for that dependency, and for every component reachable from    *)
(* it, has been connected by an earlier connect.                           *)
(***************************************************************************)
C9_WiringBottomUp ==
    \A k \in Events("connect") :
       \A r \in Closure(manifest, {trace[k].dep}) :
          \A i \in DOMAIN manifest[r] :
             ConnectedBefore(k, r, manifest[r][i].name) # {}

\* A dependency that has a dependency of its own has been connected into
\* its parent.
C9_Witness ==
    \E k \in Events("connect") :
       /\ trace[k].n = 1
       /\ \E r \in Closure(manifest, {trace[k].dep}) \ {trace[k].dep} :
             manifest[r] # <<>>

\* The last event is a connect.
LastIsConnect == trace # <<>> /\ trace[Len(trace)].e = "connect"

\* The connect event k asks for an import its target does not declare.
ImportAbsent(k) ==
    import_by_name(DefinitionOf(trace[k].id), trace[k].name) = {}

\* The connect event k names an export its source lacks or one whose kind
\* is not instance.
ExportUnusable(k) ==
    /\ trace[k].export # None
    /\ \A i \in export_by_name(DefinitionOf(trace[k].dep), trace[k].export[1]) :
          DefinitionOf(trace[k].dep).exports[i].kind # "instance"

(***************************************************************************)
(* C10.  A connect whose target import name is absent from the target's    *)
(* import table fails with an error naming the component and the import;   *)
(* a connect given a source export name that is absent from the source's   *)
(* export table, or whose kind is not instance, fails with an error naming *)
(* the source and the export; a failed connect adds no connection to the   *)
(* graph.                                                                  *)
(***************************************************************************)
C10_ConnectRejects ==
    /\ Cardinality(graph.connections)
          = Cardinality({k \in Events("connect") : trace[k].n = 1})
    /\ \A k \in Events("connect") :
          /\ ImportAbsent(k) \/ ExportUnusable(k) =>
                /\ trace[k].n = 0
                /\ k = Len(trace)
                /\ stage = "Failed"
          /\ ImportAbsent(k) =>
                /\ result.err.kind = "import"
                /\ result.err.component = trace[k].id
                /\ result.err.name = trace[k].name
          /\ ExportUnusable(k) /\ ~ImportAbsent(k) =>
                /\ result.err.kind = "export"
                /\ result.err.component = trace[k].dep
                /\ result.err.name = trace[k].export[1]

\* A connect naming an export that is a function has failed.
C10_Witness ==
    /\ LastIsConnect
    /\ ~ImportAbsent(Len(trace))
    /\ ExportUnusable(Len(trace))
    /\ export_by_name(DefinitionOf(trace[Len(trace)].dep),
                      trace[Len(trace)].export[1]) # {}
    /\ stage = "Failed"

\* The definition an instance of the graph instantiates.
DefinitionAt(iid) == graph.components[graph.instances[iid].component]

\* The kind of the import a connect event names, "" when the target has no
\* import of that name.
ImportKind(k) ==
    LET def == DefinitionOf(trace[k].id)
        hit == import_by_name(def, trace[k].name)
    IN  IF hit = {} THEN "" ELSE def.imports[Min(hit)].ty.kind

Unconnected ==
    UNION {{<<iid, i>> : i \in DOMAIN DefinitionAt(iid).imports
                              \ graph.instances[iid].connected}
           : iid \in DOMAIN graph.instances}

UndeclaredImports(c) ==
    {i \in DOMAIN manifest[c] : ~Declared(manifest, manifest[c][i].component)}

\* A registered component declares an import of an undeclared identity.
ReachedUndeclared == \E c \in DOMAIN components : UndeclaredImports(c) # {}

\* C13 as claimed: a finished run in which a registered component declares
\* an import of an undeclared identity has failed in resolution with the
\* error naming the referrer, the import and the missing identity.
C13_UndeclaredEndsWithReferenceError ==
    Finished /\ ReachedUndeclared =>
       /\ stage = "Failed"
       /\ result.err.kind = "undefined"
       /\ \E c \in DOMAIN components : \E i \in UndeclaredImports(c) :
             result.err = Err("undefined", c, manifest[c][i].component,
                              manifest[c][i].name)

(***************************************************************************)
(* C13, amended.  When a registered component declares an import of an     *)
(* identity the manifest lacks, the run never leaves resolution: no        *)
(* connect, unification or encode is performed and no bytes are returned.  *)
(* The run fails with the error naming the referring component, the import *)
(* and the missing identity unless a failed registration or a cycle is met *)
(* at an earlier import; that error is only ever reported for the first    *)
(* undeclared import of a registered component.                            *)
(***************************************************************************)
C13_UndeclaredFailsInResolution ==
    /\ ReachedUndeclared =>
          /\ ~PastResolving
          /\ Events("connect") \cup Events("unify") \cup Events("encode") = {}
          /\ result.bytes = None /\ result.status # "ok"
          /\ stage = "Failed" =>
                /\ result.failedIn \in {"Empty", "Resolving"}
                /\ result.err.kind \in {"undefined", "cycle"} \cup RegistrationErrors
                /\ result.err.kind = "cycle" => HasCycle(manifest)
    /\ result.err.kind = "undefined" =>
          /\ stage = "Failed" /\ result.failedIn = "Resolving"
          /\ \E c \in DOMAIN components : \E i \in UndeclaredImports(c) :
                /\ result.err = Err("undefined", c, manifest[c][i].component,
                                    manifest[c][i].name)
                /\ \A j \in UndeclaredImports(c) : i <= j

\* The undeclared dependency of a component other than the root, met after
\* a declared one, has been reported.
C13_Witness ==
    /\ stage = "Failed"
    /\ result.err.kind = "undefined"
    /\ result.err.component # Root
    /\ result.err.name = "y"

\* The graph and the tables hold nothing for the identity.
Unregistered(id) ==
    /\ id \notin DOMAIN components
    /\ id \notin DOMAIN instances
    /\ DefinitionsOf(id) = {}
    /\ InstancesOf(id) = {}
    /\ EventsOf("insert", id) = {}

(***************************************************************************)
(* C14.  When the first registration of an identity fails on the read of   *)
(* its source (the error names the identity and the path) or on the        *)
(* validation of the isolated binary, the run fails and the graph and the  *)
(* components and instances tables hold neither a definition nor an        *)
(* instance of that identity; every definition of the graph was inserted   *)
(* right after an isolation whose validation passed.                       *)
(***************************************************************************)
C14_FailedRegistrationAddsNothing ==
    /\ result.err.kind \in {"read", "validate"} =>
          /\ stage = "Failed"
          /\ Unregistered(result.err.component)
          /\ EventsOf("read", result.err.component) # {}
          /\ result.err.kind = "read" => result.err.name = "path"
    /\ \A k \in Events("isolate") :
          trace[k].n = 0 =>
             /\ k = Len(trace)
             /\ Unregistered(trace[k].id)
             /\ result.err.kind = "validate" /\ result.err.component = trace[k].id
    /\ \A k \in Events("insert") :
          /\ k > 2
          /\ trace[k - 1] = Event("isolate", trace[k].id, "", "", None, 1)
          /\ trace[k - 2] = Event("read", trace[k].id, "", "", None, 0)
    /\ Len(graph.components) = Cardinality(Events("insert"))
    /\ Len(graph.instances) = Cardinality(Events("insert"))

\* The isolated binary of a dependency failed validation after the root and
\* another dependency were registered.
C14_Witness ==
    /\ stage = "Failed"
    /\ result.err.kind = "validate"
    /\ result.err.component # Root
    /\ Cardinality(DOMAIN components) >= 2
    /\ Unregistered(result.err.component)

\* The graph and both tables hold the identity.
Registered(id) ==
    /\ id \in DOMAIN components
    /\ id \in DOMAIN instances
    /\ components[id] \in DOMAIN graph.components
    /\ graph.components[components[id]].name = id
    /\ instances[id] \in DOMAIN graph.instances
    /\ graph.instances[instances[id]].component = components[id]

(***************************************************************************)
(* C15.  Every dependency is registered before it is needed: the component *)
(* of every add_dependencies and build_composition call in progress is     *)
(* registered; once Wiring has started every identity reachable from the   *)
(* root is declared and registered; every connect was issued between two   *)
(* registered identities; and no unwrap or assert of the composer fails.   *)
(***************************************************************************)
C15_RegisteredBeforeNeeded ==
    /\ \A k \in DOMAIN calls : Registered(calls[k].c)
    /\ PastResolving =>
          /\ ~HasUndeclared(manifest)
          /\ \A id \in Reachable(manifest) : Declared(manifest, id) /\ Registered(id)
    /\ \A k \in Events("connect") :
          /\ Registered(trace[k].id) /\ Registered(trace[k].dep)
          /\ Declared(manifest, trace[k].dep)
    /\ result.err.kind # "panic"

\* The wiring of the diamond has connected the shared dependency into both
\* of its parents.
C15_Witness ==
    /\ manifest = Diamond
    /\ stage = "Wiring"
    /\ \E j, k \in Events("connect") :
          /\ trace[j].dep = "d" /\ trace[k].dep = "d"
          /\ trace[j].id = "b" /\ trace[k].id = "c"

\* The manifest is a root with the single import `x` of a component that
\* imports nothing.
SingleImport(S) ==
    /\ S # Root /\ Declared(manifest, S)
    /\ Len(manifest[Root]) = 1
    /\ manifest[Root][1].name = "x"
    /\ manifest[Root][1].component = S
    /\ manifest[S] = <<>>

(***************************************************************************)
(* C16.  On success the instance exported at encode is the instance of the *)
(* root, whatever the dependency graph; for a root with the single import  *)
(* x of a component S without imports the graph then holds exactly the two *)
(* definitions of the root and S, and exactly one connection, of the       *)
(* instance of S into the import x of the root's instance.                 *)
(***************************************************************************)
C16_RootInstanceExported ==
    stage = "Encoded" =>
       /\ result.bytes # None
       /\ result.bytes[1].export = instances[Root]
       /\ DefinitionAt(result.bytes[1].export).name = Root
       /\ \A S \in Ids :
             SingleImport(S) =>
                /\ {graph.components[i].name : i \in DOMAIN graph.components} = {Root, S}
                /\ Len(graph.components) = 2
                /\ Len(graph.instances) = 2
                /\ result.bytes[1].definitions = 2
                /\ Cardinality(graph.connections) = 1
                /\ \A cn \in graph.connections :
                      /\ cn.source = instances[S]
                      /\ cn.target = instances[Root]
                      /\ DefinitionOf(Root).imports[cn.target_import].name = "x"

\* The root with the single import of a component without imports has been
\* composed.
C16_Witness ==
    /\ stage = "Encoded"
    /\ SingleImport("b")
    /\ Cardinality(graph.connections) = 1

\* What an error names: the identities and names its message holds.
NamedBy(e) == {e.component, e.detail, e.name} \ {""}

\* The identities of the resolution path that lie on a cycle of imports.
OnCycle == {c \in visited : c \in Closure(manifest, Succ(manifest, c))}

(***************************************************************************)
(* C17.  The cycle error carries the offending chain: it names the         *)
(* identities of the resolution path that form the cycle.                  *)
(***************************************************************************)
C17_CycleErrorCarriesChain ==
    result.err.kind = "cycle" =>
       /\ OnCycle # {}
       /\ OnCycle \subseteq NamedBy(result.err)

(***************************************************************************)
(* C19.  In one run connect is issued at most once for each pair of a      *)
(* target identity and one of its import names.                            *)
(***************************************************************************)
C19_ConnectIssuedOnce ==
    \A j, k \in Events("connect") :
       j # k => <<trace[j].id, trace[j].name>> # <<trace[k].id, trace[k].name>>

\* The connect events that name no source export.
WholeInstanceConnects == {k \in Events("connect") : trace[k].export = None}

(***************************************************************************)
(* C20.  A connect that names no source export looks nothing up in the     *)
(* export table of the source: when the target declares the import name    *)
(* the lookups of the composer raise no error, whatever the source         *)
(* exports, and failure can only come from the graph; the connection that  *)
(* is accepted has the whole source instance as its source.                *)
(***************************************************************************)
C20_WholeInstanceWhenExportOmitted ==
    /\ \A k \in WholeInstanceConnects :
          /\ ~ImportAbsent(k) /\ trace[k].n = 0 => result.err.kind = "graph"
          /\ trace[k].n = 0 => result.err.kind \in {"graph", "import"}
          /\ trace[k].n = 1 =>
                \E cn \in graph.connections :
                   /\ cn.source = instances[trace[k].dep]
                   /\ cn.target = instances[trace[k].id]
                   /\ DefinitionOf(trace[k].id).imports[cn.target_import].name
                         = trace[k].name
                   /\ cn.source_export = None
    /\ \A cn \in graph.connections :
          cn.source_export = None =>
             \E k \in WholeInstanceConnects :
                /\ trace[k].n = 1
                /\ cn.source = instances[trace[k].dep]
                /\ cn.target = instances[trace[k].id]

\* The whole instance of d, which exports a function only, has been
\* connected.
C20_Witness ==
    \E k \in WholeInstanceConnects :
       /\ trace[k].n = 1
       /\ trace[k].dep = "d"
       /\ \A i \in DOMAIN DefinitionOf("d").exports :
             DefinitionOf("d").exports[i].kind # "instance"

(***************************************************************************)
(* C18.  The order in which the imports of a component are listed is not   *)
(* seen in the result: for a manifest and any reordering of its import     *)
(* lists, composed in the same environment, both runs succeed or both      *)
(* fail, and when they succeed they registered the same identities, made   *)
(* the same connections (source, source export, target, target import)     *)
(* and export the same instance.                                           *)
(***************************************************************************)
C18_ImportOrderNotObserved ==
    outcomes # <<>> =>
       /\ outcomes[1].ok = outcomes[2].ok
       /\ outcomes[1].ok =>
             /\ outcomes[1].registered = outcomes[2].registered
             /\ outcomes[1].connections = outcomes[2].connections
             /\ outcomes[1].export = outcomes[2].export

\* Two components were listed in the other order and both runs succeeded,
\* with two connections or more.
C18_Witness ==
    /\ outcomes # <<>>
    /\ permuted # manifest
    /\ outcomes[1].ok /\ outcomes[2].ok
    /\ Cardinality(outcomes[1].connections) >= 2
    /\ Cardinality(outcomes[1].registered) >= 3

\* The identities of the add_dependencies calls in progress that have
\* passed their visited.insert.
PathIds == {calls[k].c : k \in EnteredPath}

(***************************************************************************)
(* C21.  During resolution the visited set is exactly the set of the       *)
(* identities on the recursion path from the root to the component being   *)
(* resolved: each call in progress has inserted its component, only the    *)
(* innermost call may still be before its insert, and nothing off the path *)
(* is left in the set.                                                     *)
(***************************************************************************)
C21_VisitedIsCurrentPath ==
    stage = "Resolving" =>
       /\ visited = PathIds
       /\ \A k \in DOMAIN calls : k < Len(calls) => k \in EnteredPath
       /\ calls # <<>> /\ calls[1].c = Root
       /\ \A k \in DOMAIN calls :
             k > 1 => \E i \in DOMAIN manifest[calls[k - 1].c] :
                         manifest[calls[k - 1].c][i].component = calls[k].c

\* In the diamond d is entered below c after the recursion into b, which
\* also entered d, has returned.
C21_Witness ==
    /\ manifest = Diamond
    /\ stage = "Resolving"
    /\ visited = {"a", "c", "d"}
    /\ "b" \in DOMAIN components
    /\ Len(calls) = 3

(***************************************************************************)
(* C23.  Every composition run terminates in Encoded or Failed, and        *)
(* build_composition only runs on a manifest in which resolution found     *)
(* neither a cycle nor an undeclared dependency.                           *)
(***************************************************************************)
C23_RunTerminates ==
    /\ <>Finished
    /\ [](PastResolving => ~HasCycle(manifest) /\ ~HasUndeclared(manifest))

\* The chain of four components has been resolved, wired and encoded.
C23_Witness ==
    /\ manifest = Chain
    /\ stage = "Encoded"
    /\ Cardinality(Events("connect")) = 3

(***************************************************************************)
(* C26.  Whenever add_component has returned Ok, the components table, the *)
(* instances table and the definitions of the graph hold the same set of   *)
(* identities, each exactly once, and no assertion or unwrap of            *)
(* add_component has failed.                                               *)
(***************************************************************************)
C26_TablesAgree ==
    /\ DOMAIN components = DOMAIN instances
    /\ DOMAIN components = {graph.components[i].name : i \in DOMAIN graph.components}
    /\ Cardinality(DOMAIN components) = Len(graph.components)
    /\ Len(graph.instances) = Len(graph.components)
    /\ \A id \in DOMAIN components :
          /\ graph.components[components[id]].name = id
          /\ graph.instances[instances[id]].component = components[id]
    /\ \A k \in Events("handle") :
          /\ trace[k].id \in DOMAIN instances
          /\ trace[k].n = instances[trace[k].id]
    /\ result.err.kind # "panic"

\* add_component has answered a second call for an identity from the
\* instances table, with three identities registered.
C26_Witness ==
    /\ Cardinality(DOMAIN components) >= 3
    /\ \E id \in DOMAIN components : Cardinality(EventsOf("handle", id)) >= 2

\* The stack without its last buffer, and that buffer.
Front(s) == SubSeq(s, 1, Len(s) - 1)
Last(s)  == s[Len(s)]

\* One step of the loop of isolate::imports on a nesting payload.
EnterStep ==
    (isoPc = "loop" /\ payloads # <<>>
       /\ Head(payloads).p \in {"ModuleSection", "ComponentSection"})
    => /\ stack' = Append(stack, output)
       /\ output' = <<>>
       /\ depth' = depth + 1
       /\ isoPc' = "loop"

NestedEndStep ==
    (isoPc = "loop" /\ payloads # <<>> /\ Head(payloads).p = "End" /\ stack # <<>>)
    => /\ stack' = Front(stack)
       /\ Len(output') = Len(Last(stack)) + 1
       /\ Front(output') = Last(stack)
       /\ Last(output').t = "nested"
       /\ Last(output').body = output
       /\ depth' = depth - 1
       /\ isoPc' = "loop"

TopEndStep ==
    (isoPc = "loop" /\ payloads # <<>> /\ Head(payloads).p = "End" /\ stack = <<>>)
    => /\ isoPc' = "validate"
       /\ payloads' = <<>>
       /\ stack' = <<>>
       /\ output' = output

(***************************************************************************)
(* C22.  In the loop of isolate::imports the depth counter is the number   *)
(* of buffers on the stack before every payload; a nested module or        *)
(* component pushes the current buffer and starts an empty one; a nested   *)
(* End pops the buffer pushed last and appends the finished buffer to it   *)
(* as one section after what the parent already held; the End met with an  *)
(* empty stack is the last payload and ends the loop.                      *)
(***************************************************************************)
C22_DepthTracksStack ==
    /\ [](isoPc = "loop" => depth = Len(stack) /\ payloads # <<>>)
    /\ [](isoPc = "validate" => stack = <<>> /\ payloads = <<>>)
    /\ [][EnterStep /\ NestedEndStep /\ TopEndStep]_vars

\* The End of a definition nested two levels deep has been taken: one
\* buffer is left on the stack and the output ends with the section of
\* the inner definition, after a section emitted before it.
C22_Witness ==
    /\ isoPc = "loop"
    /\ Len(stack) = 1 /\ depth = 1
    /\ Len(stack[1]) >= 2
    /\ Len(output) >= 3
    /\ Last(output).t = "nested"
    /\ Last(output).body \in NestedBodies(0)

\* normalize_manifest has returned.
NormDone == normPc = "done"

\* The imports of the top-level components of an application.
TopImports(a) ==
    UNION {Range(a.components[i].component.imports) : i \in DOMAIN a.components}

\* Every reference written in the application names a declared component.
ReferencesDeclared(a) ==
    \A import \in TopImports(a) :
       import.component.kind = "Reference" => import.component.id \in Keys(a.components)

(***************************************************************************)
(* C24.  After normalize_manifest, on an application whose written         *)
(* references all name declared components, every import of every         *)
(* component of the top-level components map (those moved there from an    *)
(* inline import or an inline trigger component included) is a Reference   *)
(* to an identity of the components map: none is still Inline.             *)
(***************************************************************************)
C24_ImportsFullyResolved ==
    (NormDone /\ ReferencesDeclared(given)) =>
       \A import \in TopImports(app) :
          /\ import.component.kind = "Reference"
          /\ import.component.id \in Keys(app.components)

(***************************************************************************)
(* C25.  The identities generated for inline components are distinct from  *)
(* the identities of the components of the application as written and from *)
(* one another; each moved component is held under the identity generated  *)
(* for it; the components written in the application stay where they were, *)
(* under their identity and with their source; no key of the components    *)
(* map is held twice or taken by a component waiting in `normalized`.      *)
(***************************************************************************)
C25_GeneratedIdsAreFresh ==
    /\ \A k \in DOMAIN minted : minted[k].id \notin Keys(given.components)
    /\ \A k, l \in DOMAIN minted : k # l => minted[k].id # minted[l].id
    /\ Keys(normalized) \cap Keys(app.components) = {}
    /\ Cardinality(Keys(app.components)) = Len(app.components)
    /\ Cardinality(Keys(normalized)) = Len(normalized)
    /\ Len(app.components) + Len(normalized) = Len(given.components) + Len(minted)
    /\ \A i \in DOMAIN given.components :
          /\ app.components[i].id = given.components[i].id
          /\ app.components[i].component.source = given.components[i].component.source
    /\ \A k \in DOMAIN minted :
          \E i \in DOMAIN (app.components \o normalized) :
             /\ (app.components \o normalized)[i].id = minted[k].id
             /\ (app.components \o normalized)[i].component.source = minted[k].source

\* A natural id and two counter ids were generated next to a declared
\* component that holds the first counter id.
C25_Witness ==
    /\ NormDone
    /\ "inline-component1" \in Keys(given.components)
    /\ \E k \in DOMAIN minted : minted[k].id = "a-import"
    /\ \E k \in DOMAIN minted : minted[k].id = "inline-component2"
    /\ \E k \in DOMAIN minted : minted[k].id = "inline-component3"
    /\ Len(app.components) = Len(given.components) + Len(minted)

====
